---- MODULE Spec2Model ----
(***************************************************************************)
(* Model of src/src/textsearcher.rs: the Aho-Corasick style TextSearcher   *)
(* (add_keyword, create_blues, move_front, match_, match_line, subst) and  *)
(* the process-wide registry TSM = Mutex<TextSearcherManager> with its     *)
(* four entry points text_search_ex_init / _match / _subst / _free.        *)
(*                                                                         *)
(* A String is modelled as a sequence of one-character strings, Option<T>  *)
(* as a sequence of length 0 (None) or 1 (Some), a hash map as a function  *)
(* whose DOMAIN is the key set, and nodes[node_id - 1] of the 0-based Vec  *)
(* as nodes[node_id] of a 1-based sequence.                                *)
(***************************************************************************)
EXTENDS Integers, Sequences, FiniteSets, TLC

(***************************************************************************)
(* Bounds of the model.                                                    *)
(***************************************************************************)
NumThreads == 2
MaxInits == 2
MaxKeywords == 2
MaxKeywordLen == 3
MaxTextLen == 3
MaxArrows == 5
MaxLoadId == 3

(***************************************************************************)
(* Input alphabets.                                                        *)
(***************************************************************************)
LF == "\n"
CR == "\r"
Letters == {"a", "b"}
TextLetters == Letters \cup {LF}

None == <<>>
Some(x) == <<x>>

RECURSIVE SeqsUpTo(_, _)
SeqsUpTo(S, n) ==
    IF n = 0 THEN {<<>>}
    ELSE LET shorter == SeqsUpTo(S, n - 1)
         IN shorter \cup {Append(s, x) : s \in {t \in shorter : Len(t) = n - 1}, x \in S}

Keywords == SeqsUpTo(Letters, MaxKeywordLen)
Aliases == {None, Some(<<"x">>)}
Texts == SeqsUpTo(TextLetters, MaxTextLen)

\* Keyword lists for the scans: up to MaxKeywords distinct keywords in
\* increasing order (by length, then alphabet), all without alias or all with
\* the same alias.
RECURSIVE KeywordCode(_)
KeywordCode(k) ==
    IF k = <<>> THEN 0
    ELSE KeywordCode(SubSeq(k, 1, Len(k) - 1)) * (Cardinality(Letters) + 1)
         + (IF k[Len(k)] = "a" THEN 1 ELSE 2)

IncreasingKeywords ==
    {l \in SeqsUpTo(Keywords, MaxKeywords) :
        \A i \in 1..(Len(l) - 1) : KeywordCode(l[i]) < KeywordCode(l[i + 1])}

BuiltLists == {[i \in 1..Len(l) |-> <<l[i], a>>] : l \in IncreasingKeywords, a \in Aliases}
ScanTexts == SeqsUpTo(Letters, MaxTextLen)
LineTexts == SeqsUpTo(Letters \cup {LF, CR}, MaxTextLen)

(***************************************************************************)
(* Hash maps.                                                              *)
(***************************************************************************)
EmptyMap == [k \in {} |-> 0]
MapInsert(m, k, v) == [x \in DOMAIN m \cup {k} |-> IF x = k THEN v ELSE m[x]]
MapRemove(m, k) == [x \in DOMAIN m \ {k} |-> m[x]]

(***************************************************************************)
(* KeywordNode                                                             *)
(***************************************************************************)
KeywordNode_new(letters) ==
    [letters |-> letters, length |-> Len(letters), name |-> <<>>, is_blue |-> FALSE]

(***************************************************************************)
(* TextSearcher                                                            *)
(***************************************************************************)
\* A new() that forgets the root node.
TextSearcher_new_no_root ==
    [nodes |-> <<>>, blacks |-> EmptyMap, blues |-> EmptyMap]

TextSearcher_new ==
    [nodes |-> <<KeywordNode_new(<<>>)>>, blacks |-> EmptyMap, blues |-> EmptyMap]

\* The for loop of add_keyword from character i on: follows or creates one
\* black arrow per character and returns the automaton and the last node.
RECURSIVE add_keyword_walk(_, _, _, _)
add_keyword_walk(ts, keyword, i, node_id) ==
    IF i > Len(keyword) THEN [ts |-> ts, node_id |-> node_id]
    ELSE LET letter == keyword[i]
             letters == SubSeq(keyword, 1, i)
         IN IF <<node_id, letter>> \in DOMAIN ts.blacks
            THEN add_keyword_walk(ts, keyword, i + 1, ts.blacks[<<node_id, letter>>])
            ELSE LET nodes2 == Append(ts.nodes, KeywordNode_new(letters))
                     next_node_id == Len(nodes2)
                     ts2 == [ts EXCEPT !.nodes = nodes2,
                                       !.blacks = MapInsert(@, <<node_id, letter>>, next_node_id)]
                 IN add_keyword_walk(ts2, keyword, i + 1, next_node_id)

\* An add_keyword that never follows an existing black arrow: one new node
\* per character.
RECURSIVE add_keyword_fresh_walk(_, _, _, _)
add_keyword_fresh_walk(ts, keyword, i, node_id) ==
    IF i > Len(keyword) THEN [ts |-> ts, node_id |-> node_id]
    ELSE LET nodes2 == Append(ts.nodes, KeywordNode_new(SubSeq(keyword, 1, i)))
             ts2 == [ts EXCEPT !.nodes = nodes2,
                               !.blacks = MapInsert(@, <<node_id, keyword[i]>>, Len(nodes2))]
         IN add_keyword_fresh_walk(ts2, keyword, i + 1, Len(nodes2))

add_keyword_fresh(ts, keyword, name) ==
    LET w == add_keyword_fresh_walk(ts, keyword, 1, 1)
        newname == IF name # None THEN name[1] ELSE keyword
    IN [w.ts EXCEPT !.nodes[w.node_id].is_blue = TRUE,
                    !.nodes[w.node_id].name = newname]

\* An add_keyword that keeps the name of a node that is already blue.
add_keyword_keep_name(ts, keyword, name) ==
    LET w == add_keyword_walk(ts, keyword, 1, 1)
        newname == IF w.ts.nodes[w.node_id].is_blue THEN w.ts.nodes[w.node_id].name
                   ELSE IF name # None THEN name[1] ELSE keyword
    IN [w.ts EXCEPT !.nodes[w.node_id].is_blue = TRUE,
                    !.nodes[w.node_id].name = newname]

add_keyword(ts, keyword, name) ==
    LET w == add_keyword_walk(ts, keyword, 1, 1)
        newname == IF name # None THEN name[1] ELSE keyword
    IN [w.ts EXCEPT !.nodes[w.node_id].is_blue = TRUE,
                    !.nodes[w.node_id].name = newname]

RECURSIVE get_node_by_keyword_walk(_, _, _, _)
get_node_by_keyword_walk(ts, keyword, i, node_id) ==
    IF i > Len(keyword) THEN node_id
    ELSE IF <<node_id, keyword[i]>> \in DOMAIN ts.blacks
         THEN get_node_by_keyword_walk(ts, keyword, i + 1, ts.blacks[<<node_id, keyword[i]>>])
         ELSE 0

get_node_by_keyword(ts, keyword) == get_node_by_keyword_walk(ts, keyword, 1, 1)

\* A create_blues inner loop that prefers the shortest suffix in the trie.
RECURSIVE last_suffix_node(_, _, _)
last_suffix_node(ts, letters, start) ==
    IF start >= Len(letters) THEN 0
    ELSE LET later == last_suffix_node(ts, letters, start + 1)
         IN IF later # 0 THEN later
            ELSE get_node_by_keyword(ts, SubSeq(letters, start + 1, Len(letters)))

\* The inner loop of create_blues, for start in start..letters.len()-1 (0-based
\* start): the target of the first suffix letters[start..] that is in the trie,
\* or 0 when the loop ends without a break.
RECURSIVE first_suffix_node(_, _, _)
first_suffix_node(ts, letters, start) ==
    IF start >= Len(letters) THEN 0
    ELSE LET target_node_id == get_node_by_keyword(ts, SubSeq(letters, start + 1, Len(letters)))
         IN IF target_node_id # 0 THEN target_node_id
            ELSE first_suffix_node(ts, letters, start + 1)

RECURSIVE create_blues_from(_, _)
create_blues_from(ts, node_id) ==
    IF node_id > Len(ts.nodes) THEN ts
    ELSE LET letters == ts.nodes[node_id].letters
             ts1 == [ts EXCEPT !.nodes[node_id].letters = <<>>]
             target_node_id == first_suffix_node(ts1, letters, 1)
             ts2 == IF target_node_id # 0
                    THEN [ts1 EXCEPT !.blues = MapInsert(@, node_id, target_node_id)]
                    ELSE ts1
         IN create_blues_from(ts2, node_id + 1)

\* A create_blues that drops the letters but links nothing.
RECURSIVE drop_letters_from(_, _)
drop_letters_from(ts, node_id) ==
    IF node_id > Len(ts.nodes) THEN ts
    ELSE drop_letters_from([ts EXCEPT !.nodes[node_id].letters = <<>>], node_id + 1)

create_blues_no_links(ts) == drop_letters_from(ts, 1)

\* A create_blues that links the nodes but leaves their letters in place.
RECURSIVE create_blues_keep_letters_from(_, _)
create_blues_keep_letters_from(ts, node_id) ==
    IF node_id > Len(ts.nodes) THEN ts
    ELSE LET target_node_id == first_suffix_node(ts, ts.nodes[node_id].letters, 1)
             ts2 == IF target_node_id # 0
                    THEN [ts EXCEPT !.blues = MapInsert(@, node_id, target_node_id)]
                    ELSE ts
         IN create_blues_keep_letters_from(ts2, node_id + 1)

create_blues_keep_letters(ts) == create_blues_keep_letters_from(ts, 1)

create_blues(ts) == create_blues_from(ts, 1)

\* A move_front that stays where it is when a node other than the root has
\* neither arrow.
move_front_stay(ts, node_id, letter) ==
    IF <<node_id, letter>> \in DOMAIN ts.blacks
    THEN <<ts.blacks[<<node_id, letter>>], TRUE>>
    ELSE IF node_id \in DOMAIN ts.blues
         THEN <<ts.blues[node_id], FALSE>>
         ELSE <<node_id, node_id = 1>>

\* A move_front that prefers the blue arrow to the black one.
move_front_blue_first(ts, node_id, letter) ==
    IF node_id \in DOMAIN ts.blues
    THEN <<ts.blues[node_id], FALSE>>
    ELSE IF <<node_id, letter>> \in DOMAIN ts.blacks
         THEN <<ts.blacks[<<node_id, letter>>], TRUE>>
         ELSE <<1, node_id = 1>>

move_front(ts, node_id, letter) ==
    IF <<node_id, letter>> \in DOMAIN ts.blacks
    THEN <<ts.blacks[<<node_id, letter>>], TRUE>>
    ELSE IF node_id \in DOMAIN ts.blues
         THEN <<ts.blues[node_id], FALSE>>
         ELSE <<1, node_id = 1>>

\* An event computed as if every step consumed its character.
found_at_consumed(node, posy, used) == <<node.name, posy - node.length, posy>>

\* The event of a blue node reached at 1-based position posy.
found_at(node, posy, used) ==
    IF used THEN <<node.name, posy - node.length, posy>>
    ELSE <<node.name, posy - node.length - 1, posy - 1>>

\* The inner loop of match_ for one character.
RECURSIVE match_step(_, _, _, _, _)
match_step(ts, letter, posy, node_id, names) ==
    LET mf == move_front(ts, node_id, letter)
        next_node_id == mf[1]
        used == mf[2]
        node == ts.nodes[next_node_id]
        names2 == IF node.is_blue THEN Append(names, found_at(node, posy, used)) ELSE names
    IN IF used THEN [node_id |-> next_node_id, names |-> names2]
       ELSE match_step(ts, letter, posy, next_node_id, names2)

RECURSIVE match_from(_, _, _, _, _)
match_from(ts, text, i, node_id, names) ==
    IF i > Len(text) THEN names
    ELSE LET s == match_step(ts, text[i], i, node_id, names)
         IN match_from(ts, text, i + 1, s.node_id, s.names)

match_(ts, text) == match_from(ts, text, 1, 1, <<>>)

\* A match_line inner loop that keeps the first terminal node of the line.
RECURSIVE match_line_step_first(_, _, _, _, _)
match_line_step_first(ts, letter, posy, node_id, found) ==
    LET mf == move_front(ts, node_id, letter)
        node == ts.nodes[mf[1]]
        ev == found_at(node, posy, mf[2])
        found2 == IF node.is_blue /\ ~found[1] THEN <<TRUE, ev[2], ev[3]>> ELSE found
    IN IF mf[2] THEN [node_id |-> mf[1], found |-> found2]
       ELSE match_line_step_first(ts, letter, posy, mf[1], found2)

\* The inner loop of match_line for one character; found is <<flag, start, end>>.
RECURSIVE match_line_step(_, _, _, _, _)
match_line_step(ts, letter, posy, node_id, found) ==
    LET mf == move_front(ts, node_id, letter)
        next_node_id == mf[1]
        used == mf[2]
        node == ts.nodes[next_node_id]
        ev == found_at(node, posy, used)
        found2 == IF node.is_blue THEN <<TRUE, ev[2], ev[3]>> ELSE found
    IN IF used THEN [node_id |-> next_node_id, found |-> found2]
       ELSE match_line_step(ts, letter, posy, next_node_id, found2)

\* A match_line that keeps the current node across a line separator.
RECURSIVE match_line_from_no_reset(_, _, _, _, _, _, _, _)
match_line_from_no_reset(ts, text, i, names, name, found, node_id, posy) ==
    IF i > Len(text)
    THEN IF found[1] THEN Append(names, <<name, found[2], found[3]>>) ELSE names
    ELSE LET letter == text[i]
         IN IF letter = CR \/ letter = LF
            THEN match_line_from_no_reset(ts, text, i + 1,
                                 IF found[1] THEN Append(names, <<name, found[2], found[3]>>)
                                 ELSE names,
                                 <<>>, <<FALSE, 0, 0>>, node_id, 0)
            ELSE LET s == match_line_step(ts, letter, posy + 1, node_id, found)
                 IN match_line_from_no_reset(ts, text, i + 1, names, Append(name, letter),
                                    s.found, s.node_id, posy + 1)

RECURSIVE match_line_from(_, _, _, _, _, _, _, _)
match_line_from(ts, text, i, names, name, found, node_id, posy) ==
    IF i > Len(text)
    THEN IF found[1] THEN Append(names, <<name, found[2], found[3]>>) ELSE names
    ELSE LET letter == text[i]
         IN IF letter = CR \/ letter = LF
            THEN match_line_from(ts, text, i + 1,
                                 IF found[1] THEN Append(names, <<name, found[2], found[3]>>)
                                 ELSE names,
                                 <<>>, <<FALSE, 0, 0>>, 1, 0)
            ELSE LET s == match_line_step(ts, letter, posy + 1, node_id, found)
                 IN match_line_from(ts, text, i + 1, names, Append(name, letter),
                                    s.found, s.node_id, posy + 1)

match_line(ts, text) == match_line_from(ts, text, 1, <<>>, <<>>, <<FALSE, 0, 0>>, 1, 0)

\* A commit that appends the name without the text before the candidate.
subst_commit_no_copy(letters, result, last_found) ==
    <<result[1] \o last_found[1], last_found[3]>>

\* "Use the previous result" in subst: result is <<string, cursor>>, last_found
\* an event; letters[i] for i in result.1..last_found.1 is 0-based.
subst_commit(letters, result, last_found) ==
    <<result[1] \o SubSeq(letters, result[2] + 1, last_found[2]) \o last_found[1],
      last_found[3]>>

RECURSIVE subst_step(_, _, _, _, _, _, _)
subst_step(ts, letters, letter, posy, node_id, result, last_found) ==
    LET mf == move_front(ts, node_id, letter)
        next_node_id == mf[1]
        used == mf[2]
        node == ts.nodes[next_node_id]
        found == found_at(node, posy, used)
        result2 == IF node.is_blue /\ found[2] # last_found[2] /\ last_found[2] >= result[2]
                   THEN subst_commit(letters, result, last_found)
                   ELSE result
        last_found2 == IF node.is_blue THEN found ELSE last_found
    IN IF used THEN [node_id |-> next_node_id, result |-> result2, last_found |-> last_found2]
       ELSE subst_step(ts, letters, letter, posy, next_node_id, result2, last_found2)

RECURSIVE subst_from(_, _, _, _, _, _)
subst_from(ts, letters, i, node_id, result, last_found) ==
    IF i > Len(letters)
    THEN LET result2 == IF last_found[3] >= last_found[2] /\ last_found[2] >= result[2]
                        THEN subst_commit(letters, result, last_found)
                        ELSE result
         IN result2[1] \o SubSeq(letters, result2[2] + 1, Len(letters))
    ELSE LET s == subst_step(ts, letters, letters[i], i, node_id, result, last_found)
         IN subst_from(ts, letters, i + 1, s.node_id, s.result, s.last_found)

subst(ts, text) == subst_from(ts, text, 1, 1, <<<<>>, 0>>, <<<<>>, 0, 0>>)

\* The automaton new_text_searcher builds from a keyword list: TextSearcher::new,
\* one add_keyword per (keyword, name) pair in order, then create_blues.
RECURSIVE add_keywords(_, _, _)
add_keywords(ts, keywords, i) ==
    IF i > Len(keywords) THEN ts
    ELSE add_keywords(add_keyword(ts, keywords[i][1], keywords[i][2]), keywords, i + 1)

build_text_searcher(keywords) == create_blues(add_keywords(TextSearcher_new, keywords, 1))

(***************************************************************************)
(* TextSearcherForSerde: the nodes, and the two maps as lists of pairs.    *)
(* A list collected from a hash map has the order the map iterates in,     *)
(* which is any order; it is modelled as the set of its pairs, and the     *)
(* order is chosen when the list is read back.                             *)
(***************************************************************************)
NoFile == [nodes |-> <<>>, blacks |-> {}, blues |-> {}]

\* A text that is not the JSON of a TextSearcherForSerde.
MalformedFile == [nodes |-> <<>>, blacks |-> {}, blues |-> {}, malformed |-> TRUE]

\* An export that forgets the blue arrows.
TextSearcherForSerde_from_no_blues(ts) ==
    [nodes |-> ts.nodes,
     blacks |-> {<<k, ts.blacks[k]>> : k \in DOMAIN ts.blacks},
     blues |-> {}]

TextSearcherForSerde_from(ts) ==
    [nodes |-> ts.nodes,
     blacks |-> {<<k, ts.blacks[k]>> : k \in DOMAIN ts.blacks},
     blues |-> {<<k, ts.blues[k]>> : k \in DOMAIN ts.blues}]

(***************************************************************************)
(* TextSearcherManager: count and the map tss from tsid to TextSearcher.   *)
(***************************************************************************)
TextSearcherManager_new == [count |-> 0, tss |-> EmptyMap]

\* An add_text_searcher that forgets the insert.
add_text_searcher_noop(m, tsid, searcher) == m

\* An add_text_searcher that stores under the newest handle, not under tsid.
add_text_searcher_at_count(m, tsid, searcher) ==
    [m EXCEPT !.tss = MapInsert(@, m.count, searcher)]

add_text_searcher(m, tsid, searcher) ==
    [m EXCEPT !.tss = MapInsert(@, tsid, searcher)]

\* HashMap::remove(&tsid).ok_or_else(..): the entry leaves the map and is
\* returned, or the map is left alone and the call is an error.
\* A get_text_searcher that hands out an empty TextSearcher for a missing tsid.
get_text_searcher_or_default(m, tsid) ==
    IF tsid \in DOMAIN m.tss
    THEN [ok |-> TRUE, searcher |-> Some(m.tss[tsid]), tsm |-> [m EXCEPT !.tss = MapRemove(@, tsid)]]
    ELSE [ok |-> TRUE, searcher |-> Some(TextSearcher_new), tsm |-> m]

\* A get_text_searcher that creates the missing entry (the HashMap entry API)
\* before it reports the error.
get_text_searcher_entry(m, tsid) ==
    IF tsid \in DOMAIN m.tss
    THEN [ok |-> TRUE, searcher |-> Some(m.tss[tsid]), tsm |-> [m EXCEPT !.tss = MapRemove(@, tsid)]]
    ELSE [ok |-> FALSE, searcher |-> None,
          tsm |-> [m EXCEPT !.tss = MapInsert(@, tsid, TextSearcher_new)]]

get_text_searcher(m, tsid) ==
    IF tsid \in DOMAIN m.tss
    THEN [ok |-> TRUE, searcher |-> Some(m.tss[tsid]), tsm |-> [m EXCEPT !.tss = MapRemove(@, tsid)]]
    ELSE [ok |-> FALSE, searcher |-> None, tsm |-> m]

\* A new_text_searcher that numbers the handle by the size of the map.
new_text_searcher_by_size(m, keywords) ==
    LET count2 == Cardinality(DOMAIN m.tss) + 1
    IN [tsm |-> [count |-> count2,
                 tss |-> MapInsert(m.tss, count2, build_text_searcher(keywords))],
        tsid |-> count2]

\* count: i32.  self.count += 1 without overflow checks wraps around.
I32Max == 2147483647
I32Min == (-I32Max) - 1
i32_wrapping_inc(c) == IF c = I32Max THEN I32Min ELSE c + 1

new_text_searcher(m, keywords) ==
    LET count2 == i32_wrapping_inc(m.count)
    IN [tsm |-> [count |-> count2,
                 tss |-> MapInsert(m.tss, count2, build_text_searcher(keywords))],
        tsid |-> count2]

remove_text_searcher(m, tsid) == [m EXCEPT !.tss = MapRemove(@, tsid)]

\* The scan text_search_ex_match selects with its option argument.
match_by_option(searcher, text, option) ==
    IF option = "l" THEN match_line(searcher, text) ELSE match_(searcher, text)

(***************************************************************************)
(* Inputs of the registry calls.                                           *)
(***************************************************************************)
Threads == 1..NumThreads
TsIds == 1..MaxInits
KeywordLists ==
    { << <<<<"a">>, None>> >>,
      << <<<<"a", "b">>, Some(<<"x">>)>>, <<<<"b">>, None>> >> }
RegText == <<"a", "b", LF, "a">>
Options == {"l", ""}

NoCall == [op |-> "none", tsid |-> 0, option |-> "", keywords |-> <<>>]
InitCall(keywords) == [op |-> "init", tsid |-> 0, option |-> "", keywords |-> keywords]
MatchCall(tsid, option) == [op |-> "match", tsid |-> tsid, option |-> option, keywords |-> <<>>]
SubstCall(tsid) == [op |-> "subst", tsid |-> tsid, option |-> "", keywords |-> <<>>]
FreeCall(tsid) == [op |-> "free", tsid |-> tsid, option |-> "", keywords |-> <<>>]

Ok(v) == [ok |-> TRUE, val |-> v]
Err(e) == [ok |-> FALSE, val |-> e]
NoResult == Err("none")

(***************************************************************************)
(* State.  tsm is the TextSearcherManager inside the mutex TSM, lock the   *)
(* thread holding the MutexGuard (0: none), pc/call/checked/result each    *)
(* thread's position in its entry point, its arguments, the TextSearcher   *)
(* it took out of the map and the value it is about to return.  issued,    *)
(* freed and created record the history the properties speak               *)
(* of: the handles init returned, in order; the handles whose free         *)
(* returned after they had been issued; and the keyword list each handle   *)
(* was created with.                                                       *)
(* ts, phase, inserted, text, query, out are a single TextSearcher driven  *)
(* directly (no registry); scan holds the local variables of a match_ call *)
(* that is followed one move_front at a time, file the part of a saved     *)
(* TextSearcherForSerde record that load has not read yet.                 *)
(* Callers are threads that may enter the entry points at the same time;   *)
(* the Python token each entry point takes is not modelled: the            *)
(* interpreter lock behind it can only serialise the callers further.      *)
(***************************************************************************)
VARIABLES tsm, lock, pc, call, checked, result, issued, freed, created,
          ts, phase, inserted, text, query, out, scan, file

varsReg == <<tsm, lock, pc, call, checked, result, issued, freed, created>>
varsTS == <<ts, phase, inserted, text, query, out, scan, file>>
vars == <<varsReg, varsTS>>

InitReg ==
    /\ tsm = TextSearcherManager_new
    /\ lock = 0
    /\ pc = [t \in Threads |-> "idle"]
    /\ call = [t \in Threads |-> NoCall]
    /\ checked = [t \in Threads |-> None]
    /\ result = [t \in Threads |-> NoResult]
    /\ issued = <<>>
    /\ freed = {}
    /\ created = EmptyMap

\* match_ before its first character: node_id = 1, posy = 0, no names; used
\* tells whether the last move_front consumed its character (TRUE at the
\* start: the for loop takes the next character).
ScanStart == [node_id |-> 1, posy |-> 0, used |-> TRUE, names |-> <<>>]

InitOne ==
    /\ ts = TextSearcher_new
    /\ phase = "build"
    /\ inserted = <<>>
    /\ query = "none"
    /\ out = <<>>
    /\ scan = ScanStart
    /\ file = NoFile

\* A TextSearcher as new_text_searcher leaves it: TextSearcher::new, the
\* keywords of the list added in order, create_blues.
BuiltFrom(lists) ==
    /\ InitReg
    /\ inserted \in lists
    /\ ts = build_text_searcher(inserted)
    /\ phase = "frozen"
    /\ query = "none"
    /\ out = <<>>
    /\ file = NoFile

InitBuilt == BuiltFrom(BuiltLists) /\ scan = ScanStart

\* subst before its first character: result = ("", 0), last_found = ("", 0, 0),
\* node_id = 1, posy = 0.  spans records the candidates committed so far.
SubstStart ==
    [node_id |-> 1, posy |-> 0, used |-> TRUE, result |-> <<<<>>, 0>>,
     last_found |-> <<<<>>, 0, 0>>, spans |-> <<>>]

Init == InitReg /\ InitOne /\ text = <<>>

InitTS == InitReg /\ InitOne /\ text \in Texts

(***************************************************************************)
(* The registry entry points, one action per step of a call.               *)
(***************************************************************************)
\* Inits not yet counted in tsm.count.
PendingInits == Cardinality({t \in Threads : call[t].op = "init" /\ pc[t] \in {"lock", "locked"}})

\* A thread enters one of the four entry points.
Call(t, c) ==
    /\ pc[t] = "idle"
    /\ c.op = "init" => tsm.count + PendingInits < MaxInits
    /\ pc' = [pc EXCEPT ![t] = "lock"]
    /\ call' = [call EXCEPT ![t] = c]
    /\ UNCHANGED <<tsm, lock, checked, result, issued, freed, created>>
    /\ UNCHANGED varsTS

\* A lock that does not wait for the guard to be free.
Lock_no_wait(t) ==
    /\ pc[t] = "lock"
    /\ lock' = t
    /\ pc' = [pc EXCEPT ![t] = "locked"]
    /\ UNCHANGED <<tsm, call, checked, result, issued, freed, created>>
    /\ UNCHANGED varsTS

\* TSM.lock(): blocks until no thread holds the guard.
Lock(t) ==
    /\ pc[t] = "lock"
    /\ lock = 0
    /\ lock' = t
    /\ pc' = [pc EXCEPT ![t] = "locked"]
    /\ UNCHANGED <<tsm, call, checked, result, issued, freed, created>>
    /\ UNCHANGED varsTS

\* text_search_ex_init: tsm.new_text_searcher(keywords); Ok(tsid).
DoInit(t) ==
    /\ pc[t] = "locked"
    /\ call[t].op = "init"
    /\ LET r == new_text_searcher(tsm, call[t].keywords)
       IN /\ tsm' = r.tsm
          /\ result' = [result EXCEPT ![t] = Ok(r.tsid)]
          /\ created' = MapInsert(created, r.tsid, call[t].keywords)
    /\ pc' = [pc EXCEPT ![t] = "ret"]
    /\ UNCHANGED <<lock, call, checked, issued, freed>>
    /\ UNCHANGED varsTS

\* text_search_ex_free: tsm.remove_text_searcher(tsid); Ok(0).
DoFree(t) ==
    /\ pc[t] = "locked"
    /\ call[t].op = "free"
    /\ tsm' = remove_text_searcher(tsm, call[t].tsid)
    /\ result' = [result EXCEPT ![t] = Ok(0)]
    /\ pc' = [pc EXCEPT ![t] = "ret"]
    /\ UNCHANGED <<lock, call, checked, issued, freed, created>>
    /\ UNCHANGED varsTS

\* A checkout that drops the guard once the TextSearcher is out of the map.
DoGet_unlocks(t) ==
    /\ pc[t] = "locked"
    /\ call[t].op \in {"match", "subst"}
    /\ LET r == get_text_searcher(tsm, call[t].tsid)
       IN /\ tsm' = r.tsm
          /\ checked' = [checked EXCEPT ![t] = r.searcher]
          /\ IF r.ok
             THEN /\ pc' = [pc EXCEPT ![t] = "scan"]
                  /\ lock' = 0
                  /\ UNCHANGED result
             ELSE /\ pc' = [pc EXCEPT ![t] = "ret"]
                  /\ lock' = lock
                  /\ result' = [result EXCEPT ![t] = Err("InvalidHandle")]
    /\ UNCHANGED <<call, issued, freed, created>>
    /\ UNCHANGED varsTS

\* text_search_ex_match / _subst: tsm.get_text_searcher(tsid) with the ? on
\* its error.
DoGet(t) ==
    /\ pc[t] = "locked"
    /\ call[t].op \in {"match", "subst"}
    /\ LET r == get_text_searcher(tsm, call[t].tsid)
       IN /\ tsm' = r.tsm
          /\ checked' = [checked EXCEPT ![t] = r.searcher]
          /\ IF r.ok
             THEN /\ pc' = [pc EXCEPT ![t] = "scan"]
                  /\ UNCHANGED result
             ELSE /\ pc' = [pc EXCEPT ![t] = "ret"]
                  /\ result' = [result EXCEPT ![t] = Err("InvalidHandle")]
    /\ UNCHANGED <<lock, call, issued, freed, created>>
    /\ UNCHANGED varsTS

\* The scan itself: ts.match_line(text) / ts.match_(text) / ts.subst(text).
DoScan(t) ==
    /\ pc[t] = "scan"
    /\ result' = [result EXCEPT ![t] =
                    IF call[t].op = "match"
                    THEN Ok(match_by_option(checked[t][1], RegText, call[t].option))
                    ELSE Ok(subst(checked[t][1], RegText))]
    /\ pc' = [pc EXCEPT ![t] = "add"]
    /\ UNCHANGED <<tsm, lock, call, checked, issued, freed, created>>
    /\ UNCHANGED varsTS

\* tsm.add_text_searcher(tsid, ts).
DoAdd(t) ==
    /\ pc[t] = "add"
    /\ tsm' = add_text_searcher(tsm, call[t].tsid, checked[t][1])
    /\ checked' = [checked EXCEPT ![t] = None]
    /\ pc' = [pc EXCEPT ![t] = "ret"]
    /\ UNCHANGED <<lock, call, result, issued, freed, created>>
    /\ UNCHANGED varsTS

\* A return that leaks the MutexGuard (mem::forget): the lock stays taken.
Return_keeps_lock(t) ==
    /\ pc[t] = "ret"
    /\ pc' = [pc EXCEPT ![t] = "idle"]
    /\ call' = [call EXCEPT ![t] = NoCall]
    /\ result' = [result EXCEPT ![t] = NoResult]
    /\ issued' = IF call[t].op = "init" THEN Append(issued, result[t].val) ELSE issued
    /\ freed' = IF call[t].op = "free" /\ call[t].tsid \in DOMAIN created
                THEN freed \cup {call[t].tsid}
                ELSE freed
    /\ UNCHANGED <<tsm, lock, checked, created>>
    /\ UNCHANGED varsTS

\* The function returns: the MutexGuard tsm goes out of scope and the caller
\* has the result.
Return(t) ==
    /\ pc[t] = "ret"
    /\ lock' = 0
    /\ pc' = [pc EXCEPT ![t] = "idle"]
    /\ call' = [call EXCEPT ![t] = NoCall]
    /\ result' = [result EXCEPT ![t] = NoResult]
    /\ issued' = IF call[t].op = "init" THEN Append(issued, result[t].val) ELSE issued
    /\ freed' = IF call[t].op = "free" /\ call[t].tsid \in DOMAIN created
                THEN freed \cup {call[t].tsid}
                ELSE freed
    /\ UNCHANGED <<tsm, checked, created>>
    /\ UNCHANGED varsTS

Calls ==
    {InitCall(k) : k \in KeywordLists}
        \cup {MatchCall(h, o) : h \in TsIds, o \in Options}
        \cup {SubstCall(h) : h \in TsIds}
        \cup {FreeCall(h) : h \in TsIds}

Next ==
    \E t \in Threads :
        \/ \E c \in Calls : Call(t, c)
        \/ Lock(t)
        \/ DoInit(t)
        \/ DoFree(t)
        \/ DoGet(t)
        \/ DoScan(t)
        \/ DoAdd(t)
        \/ Return(t)

Spec == Init /\ [][Next]_vars

(***************************************************************************)
(* The registry as the Python host calls it.  Each entry point is          *)
(* registered with py_fn! and receives the token python: Python, which its *)
(* thread holds from entry to return (no entry point releases it), so a    *)
(* thread enters an entry point only while no other thread is inside one.  *)
(* One keyword list and one option are enough: no step of the locking      *)
(* looks at them.                                                          *)
(***************************************************************************)
FairCalls ==
    {InitCall(<< <<<<"a">>, None>> >>)}
        \cup {MatchCall(h, "") : h \in TsIds}
        \cup {SubstCall(h) : h \in TsIds}
        \cup {FreeCall(h) : h \in TsIds}

\* Thread t, holding the Python token, enters an entry point.
HostCall(t, c) ==
    /\ \A u \in Threads \ {t} : pc[u] = "idle"
    /\ Call(t, c)

\* The steps of a thread inside an entry point, the scan apart.
ThreadStep(t) ==
    \/ Lock(t)
    \/ DoInit(t)
    \/ DoFree(t)
    \/ DoGet(t)
    \/ DoAdd(t)
    \/ Return(t)

\* The step DoScan(t), told by its change of pc alone: under NextHost it is
\* the only step that takes thread t from "scan" to "add".
ScanDone(t) ==
    /\ pc[t] = "scan"
    /\ pc' = [pc EXCEPT ![t] = "add"]

NextHost ==
    \E t \in Threads :
        \/ \E c \in FairCalls : HostCall(t, c)
        \/ ThreadStep(t)
        \/ DoScan(t)

SpecHost == Init /\ [][NextHost]_vars

\* Fair scheduling: a thread inside an entry point keeps running (weak
\* fairness of its steps, TSM.lock() included).  Nothing is assumed of the
\* mutex, and threads are free to make no call at all.
SpecFair ==
    /\ SpecHost
    /\ \A t \in Threads : WF_vars(ThreadStep(t)) /\ WF_pc(ScanDone(t))

(***************************************************************************)
(* The registry at the end of the counter.  With overflow checks           *)
(* self.count += 1 panics at i32::MAX while the entry point holds the      *)
(* MutexGuard, and the unwinding poisons TSM; without them the counter     *)
(* wraps.  lock = Poisoned: nobody holds the mutex and it is poisoned.     *)
(***************************************************************************)
Poisoned == -1

InitPoison ==
    /\ \E k \in KeywordLists :
        /\ tsm = [count |-> I32Max, tss |-> MapInsert(EmptyMap, 1, build_text_searcher(k))]
        /\ created = MapInsert(EmptyMap, 1, k)
    /\ lock = 0
    /\ pc = [t \in Threads |-> "idle"]
    /\ call = [t \in Threads |-> NoCall]
    /\ checked = [t \in Threads |-> None]
    /\ result = [t \in Threads |-> NoResult]
    /\ issued = <<>>
    /\ freed = {}
    /\ InitOne
    /\ text = <<>>

\* A thread enters one of the four entry points; init only while the counter
\* is at its maximum.
CallAtMax(t, c) ==
    /\ pc[t] = "idle"
    /\ c.op = "init" => tsm.count = I32Max
    /\ pc' = [pc EXCEPT ![t] = "lock"]
    /\ call' = [call EXCEPT ![t] = c]
    /\ UNCHANGED <<tsm, lock, checked, result, issued, freed, created>>
    /\ UNCHANGED varsTS

\* self.count += 1 panics (overflow checks on): nothing of the manager has
\* changed yet, the guard is dropped by the unwinding and poisons the mutex;
\* the caller gets no result of the entry point.
DoInitPanic(t) ==
    /\ pc[t] = "locked"
    /\ call[t].op = "init"
    /\ tsm.count = I32Max
    /\ lock' = Poisoned
    /\ pc' = [pc EXCEPT ![t] = "idle"]
    /\ call' = [call EXCEPT ![t] = NoCall]
    /\ UNCHANGED <<tsm, checked, result, issued, freed, created>>
    /\ UNCHANGED varsTS

\* A lock() that takes the guard out of the PoisonError and goes on.
LockPoisoned_into_inner(t) ==
    /\ pc[t] = "lock"
    /\ lock = Poisoned
    /\ pc' = [pc EXCEPT ![t] = "locked"]
    /\ UNCHANGED <<tsm, lock, call, checked, result, issued, freed, created>>
    /\ UNCHANGED varsTS

\* TSM.lock() on the poisoned mutex is Err(PoisonError); or_else(raise_error!)
\* drops it (and the guard inside) and ? returns the error.
LockPoisoned(t) ==
    /\ pc[t] = "lock"
    /\ lock = Poisoned
    /\ pc' = [pc EXCEPT ![t] = "failed"]
    /\ result' = [result EXCEPT ![t] = Err("LockFailure")]
    /\ UNCHANGED <<tsm, lock, call, checked, issued, freed, created>>
    /\ UNCHANGED varsTS

\* The entry point has returned the lock error.
ReturnFailed(t) ==
    /\ pc[t] = "failed"
    /\ pc' = [pc EXCEPT ![t] = "idle"]
    /\ call' = [call EXCEPT ![t] = NoCall]
    /\ result' = [result EXCEPT ![t] = NoResult]
    /\ UNCHANGED <<tsm, lock, checked, issued, freed, created>>
    /\ UNCHANGED varsTS

NextPoison ==
    \E t \in Threads :
        \/ \E c \in Calls : CallAtMax(t, c)
        \/ Lock(t)
        \/ LockPoisoned(t)
        \/ DoInit(t)
        \/ DoInitPanic(t)
        \/ DoFree(t)
        \/ DoGet(t)
        \/ DoScan(t)
        \/ DoAdd(t)
        \/ Return(t)
        \/ ReturnFailed(t)

SpecPoison == InitPoison /\ [][NextPoison]_vars

(***************************************************************************)
(* One TextSearcher used directly: add_keyword*, create_blues, then scans  *)
(* of the text drawn in InitTS.                                            *)
(***************************************************************************)
TSAddKeyword(keyword, name) ==
    /\ phase = "build"
    /\ Len(inserted) < MaxKeywords
    /\ ts' = add_keyword(ts, keyword, name)
    /\ inserted' = Append(inserted, <<keyword, name>>)
    /\ UNCHANGED <<phase, text, query, out, scan, file>>
    /\ UNCHANGED varsReg

TSCreateBlues ==
    /\ phase = "build"
    /\ ts' = create_blues(ts)
    /\ phase' = "frozen"
    /\ UNCHANGED <<inserted, text, query, out, scan, file>>
    /\ UNCHANGED varsReg

TSMatch ==
    /\ phase = "frozen"
    /\ out' = match_(ts, text)
    /\ query' = "match_"
    /\ UNCHANGED <<ts, phase, inserted, text, scan, file>>
    /\ UNCHANGED varsReg

TSMatchLine ==
    /\ phase = "frozen"
    /\ out' = match_line(ts, text)
    /\ query' = "match_line"
    /\ UNCHANGED <<ts, phase, inserted, text, scan, file>>
    /\ UNCHANGED varsReg

TSSubst ==
    /\ phase = "frozen"
    /\ out' = subst(ts, text)
    /\ query' = "subst"
    /\ UNCHANGED <<ts, phase, inserted, text, scan, file>>
    /\ UNCHANGED varsReg

NextTS ==
    \/ \E keyword \in Keywords, name \in Aliases : TSAddKeyword(keyword, name)
    \/ TSCreateBlues
    \/ TSMatch
    \/ TSMatchLine
    \/ TSSubst

SpecTS == InitTS /\ [][NextTS]_vars

\* The single-keyword automaton: one add_keyword, create_blues, match_.
TSAddOnly(keyword, name) ==
    /\ inserted = <<>>
    /\ TSAddKeyword(keyword, name)

NextSingle ==
    \/ \E keyword \in Keywords, name \in Aliases : TSAddOnly(keyword, name)
    \/ TSCreateBlues
    \/ TSMatch

SpecSingle == InitTS /\ [][NextSingle]_vars

\* The keyword set of test_create_blues, inserted in the order of the test.
SevenKeywords ==
    << <<"a">>, <<"a", "b">>, <<"b", "a", "b">>, <<"b", "c">>, <<"b", "c", "a">>,
       <<"c">>, <<"c", "a", "a">> >>

TSAddSeven(name) ==
    /\ phase = "build"
    /\ Len(inserted) < Len(SevenKeywords)
    /\ ts' = add_keyword(ts, SevenKeywords[Len(inserted) + 1], name)
    /\ inserted' = Append(inserted, <<SevenKeywords[Len(inserted) + 1], name>>)
    /\ UNCHANGED <<phase, text, query, out, scan, file>>
    /\ UNCHANGED varsReg

NextSeven ==
    \/ \E name \in Aliases : TSAddSeven(name)
    \/ TSCreateBlues

SpecSeven == Init /\ [][NextSeven]_vars

\* The builder alone: any add_keyword calls, then create_blues.
NextBuild ==
    \/ \E keyword \in Keywords, name \in Aliases : TSAddKeyword(keyword, name)
    \/ TSCreateBlues

SpecBuild == Init /\ [][NextBuild]_vars

\* Any sequence of add_keyword calls on a new TextSearcher.
NextTrie == \E keyword \in Keywords, name \in Aliases : TSAddKeyword(keyword, name)

SpecTrie == Init /\ [][NextTrie]_vars

\* add_keyword and create_blues are public methods on &mut self with no
\* check of what was called before: both can be called on a TextSearcher
\* whose create_blues has already run.
TSAddKeywordLate(keyword, name) ==
    /\ phase = "frozen"
    /\ Len(inserted) < MaxKeywords
    /\ ts' = add_keyword(ts, keyword, name)
    /\ inserted' = Append(inserted, <<keyword, name>>)
    /\ UNCHANGED <<phase, text, query, out, scan, file>>
    /\ UNCHANGED varsReg

TSCreateBluesAgain ==
    /\ phase = "frozen"
    /\ ts' = create_blues(ts)
    /\ UNCHANGED <<phase, inserted, text, query, out, scan, file>>
    /\ UNCHANGED varsReg

\* Every public method of TextSearcher in any order (save and load apart).
NextDirect ==
    \/ \E keyword \in Keywords, name \in Aliases : TSAddKeyword(keyword, name)
    \/ TSCreateBlues
    \/ \E keyword \in Keywords, name \in Aliases : TSAddKeywordLate(keyword, name)
    \/ TSCreateBluesAgain
    \/ TSMatch
    \/ TSMatchLine
    \/ TSSubst

SpecDirect == Init /\ [][NextDirect]_vars

\* match_ followed one iteration of its inner loop at a time: the for loop
\* takes the next character when the previous move_front consumed one.
ScanStep ==
    /\ phase = "frozen"
    /\ query = "none"
    /\ scan.used => scan.posy < Len(text)
    /\ LET posy == IF scan.used THEN scan.posy + 1 ELSE scan.posy
           mf == move_front(ts, scan.node_id, text[posy])
           node == ts.nodes[mf[1]]
       IN /\ mf[1] \in 1..Len(ts.nodes)
          /\ scan' = [node_id |-> mf[1], posy |-> posy, used |-> mf[2],
                      names |-> IF node.is_blue
                                THEN Append(scan.names, found_at(node, posy, mf[2]))
                                ELSE scan.names]
    /\ UNCHANGED <<ts, phase, inserted, text, query, out, file>>
    /\ UNCHANGED varsReg

\* match_ returns names when the characters are used up.
ScanReturn ==
    /\ phase = "frozen"
    /\ query = "none"
    /\ scan.used
    /\ scan.posy = Len(text)
    /\ out' = scan.names
    /\ query' = "match_"
    /\ UNCHANGED <<ts, phase, inserted, text, scan, file>>
    /\ UNCHANGED varsReg

\* &self.nodes[node_id - 1] with node_id outside 1..nodes.len(): the index
\* (or, for node_id = 0, the subtraction) panics.
ScanPanic ==
    /\ phase = "frozen"
    /\ query = "none"
    /\ scan.used => scan.posy < Len(text)
    /\ LET posy == IF scan.used THEN scan.posy + 1 ELSE scan.posy
           mf == move_front(ts, scan.node_id, text[posy])
       IN mf[1] \notin 1..Len(ts.nodes)
    /\ query' = "panic"
    /\ UNCHANGED <<ts, phase, inserted, text, out, scan, file>>
    /\ UNCHANGED varsReg

InitScan == InitBuilt /\ text \in ScanTexts

NextScan == ScanStep \/ ScanReturn

SpecScan == InitScan /\ [][NextScan]_vars

\* The scan runs on the calling thread with nothing to wait for: its next
\* step is always taken.  The keywords carry no alias, which move_front
\* never reads.
InitScanFair ==
    /\ InitScan
    /\ \A i \in 1..Len(inserted) : inserted[i][2] = None

SpecScanFair == InitScanFair /\ [][NextScan]_vars /\ WF_vars(NextScan)

\* The input of test_subst1: the seven keywords, each with the alias
\* x<keyword>y, and the text abccab.
SubstTestKeywords ==
    [i \in 1..Len(SevenKeywords) |->
        <<SevenKeywords[i], Some(<<"x">> \o SevenKeywords[i] \o <<"y">>)>>]

SubstTestText == <<"a", "b", "c", "c", "a", "b">>

\* A subst step that commits the previous candidate without looking at the
\* cursor.
SubstStep_any_start ==
    /\ phase = "frozen"
    /\ query = "none"
    /\ scan.used => scan.posy < Len(text)
    /\ LET posy == IF scan.used THEN scan.posy + 1 ELSE scan.posy
           mf == move_front(ts, scan.node_id, text[posy])
           node == ts.nodes[mf[1]]
           found == found_at(node, posy, mf[2])
           commit == node.is_blue /\ found[2] # scan.last_found[2]
       IN scan' = [node_id |-> mf[1], posy |-> posy, used |-> mf[2],
                   result |-> IF commit THEN subst_commit(text, scan.result, scan.last_found)
                              ELSE scan.result,
                   last_found |-> IF node.is_blue THEN found ELSE scan.last_found,
                   spans |-> IF commit THEN Append(scan.spans, scan.last_found)
                             ELSE scan.spans]
    /\ UNCHANGED <<ts, phase, inserted, text, query, out, file>>
    /\ UNCHANGED varsReg

\* subst followed one iteration of its inner loop at a time.
SubstStep ==
    /\ phase = "frozen"
    /\ query = "none"
    /\ scan.used => scan.posy < Len(text)
    /\ LET posy == IF scan.used THEN scan.posy + 1 ELSE scan.posy
           mf == move_front(ts, scan.node_id, text[posy])
           node == ts.nodes[mf[1]]
           found == found_at(node, posy, mf[2])
           commit == /\ node.is_blue
                     /\ found[2] # scan.last_found[2]
                     /\ scan.last_found[2] >= scan.result[2]
       IN scan' = [node_id |-> mf[1], posy |-> posy, used |-> mf[2],
                   result |-> IF commit THEN subst_commit(text, scan.result, scan.last_found)
                              ELSE scan.result,
                   last_found |-> IF node.is_blue THEN found ELSE scan.last_found,
                   spans |-> IF commit THEN Append(scan.spans, scan.last_found)
                             ELSE scan.spans]
    /\ UNCHANGED <<ts, phase, inserted, text, query, out, file>>
    /\ UNCHANGED varsReg

\* The end of subst: the last candidate is committed under the same rule and
\* the text after the cursor is copied.
SubstReturn ==
    /\ phase = "frozen"
    /\ query = "none"
    /\ scan.used
    /\ scan.posy = Len(text)
    /\ LET commit == /\ scan.last_found[3] >= scan.last_found[2]
                     /\ scan.last_found[2] >= scan.result[2]
           result2 == IF commit THEN subst_commit(text, scan.result, scan.last_found)
                      ELSE scan.result
       IN /\ scan' = [scan EXCEPT !.result = result2,
                                  !.spans = IF commit THEN Append(@, scan.last_found) ELSE @]
          /\ out' = result2[1] \o SubSeq(text, result2[2] + 1, Len(text))
    /\ query' = "subst"
    /\ UNCHANGED <<ts, phase, inserted, text, file>>
    /\ UNCHANGED varsReg

InitSubst ==
    /\ \/ BuiltFrom(BuiltLists) /\ text \in ScanTexts
       \/ BuiltFrom({SubstTestKeywords}) /\ text = SubstTestText
    /\ scan = SubstStart

NextSubst == SubstStep \/ SubstReturn

SpecSubst == InitSubst /\ [][NextSubst]_vars

\* save: the record TextSearcherForSerde::from makes of the automaton.
TSSave ==
    /\ phase = "frozen"
    /\ query = "none"
    /\ file' = TextSearcherForSerde_from(ts)
    /\ query' = "save"
    /\ UNCHANGED <<ts, phase, inserted, text, out, scan>>
    /\ UNCHANGED varsReg

\* load, TextSearcherForSerde::to: the nodes are moved, then the black list
\* and then the blue list are collected into new maps, one pair at a time in
\* the order of the list.
TSLoadNodes ==
    /\ query = "save"
    /\ out' = [nodes |-> file.nodes, blacks |-> EmptyMap, blues |-> EmptyMap]
    /\ file' = [file EXCEPT !.nodes = <<>>]
    /\ query' = "to"
    /\ UNCHANGED <<ts, phase, inserted, text, scan>>
    /\ UNCHANGED varsReg

TSLoadBlack(x) ==
    /\ query = "to"
    /\ x \in file.blacks
    /\ out' = [out EXCEPT !.blacks = MapInsert(@, x[1], x[2])]
    /\ file' = [file EXCEPT !.blacks = @ \ {x}]
    /\ UNCHANGED <<ts, phase, inserted, text, query, scan>>
    /\ UNCHANGED varsReg

TSLoadBlue(x) ==
    /\ query = "to"
    /\ file.blacks = {}
    /\ x \in file.blues
    /\ out' = [out EXCEPT !.blues = MapInsert(@, x[1], x[2])]
    /\ file' = [file EXCEPT !.blues = @ \ {x}]
    /\ UNCHANGED <<ts, phase, inserted, text, query, scan>>
    /\ UNCHANGED varsReg

TSLoadReturn ==
    /\ query = "to"
    /\ file.blacks = {}
    /\ file.blues = {}
    /\ query' = "load"
    /\ UNCHANGED <<ts, phase, inserted, text, out, scan, file>>
    /\ UNCHANGED varsReg

\* load of a text that serde_json cannot parse into a TextSearcherForSerde.
TSLoadError ==
    /\ query = "save"
    /\ file = MalformedFile
    /\ query' = "error"
    /\ UNCHANGED <<ts, phase, inserted, text, out, scan, file>>
    /\ UNCHANGED varsReg

\* load of a text that parses: the record goes through to().
TSLoadParsed ==
    /\ file # MalformedFile
    /\ TSLoadNodes

\* The caller keeps the loaded automaton and scans with it.
TSUseLoaded ==
    /\ query = "load"
    /\ ts' = out
    /\ query' = "none"
    /\ UNCHANGED <<phase, inserted, text, out, scan, file>>
    /\ UNCHANGED varsReg

\* Texts given to load that nobody checked: unparsable text, and records of
\* two non-terminal nodes with at most one black arrow (1, a) -> t and at
\* most one blue arrow 2 -> t, t being any number up to MaxLoadId.
LoadNodes ==
    <<KeywordNode_new(<<>>), [KeywordNode_new(<<>>) EXCEPT !.length = Len(<<"a">>)]>>

LoadFiles ==
    {MalformedFile} \cup
    {[nodes |-> LoadNodes, blacks |-> b, blues |-> u] :
        b \in {{}} \cup {{<<<<1, "a">>, t>>} : t \in 0..MaxLoadId},
        u \in {{}} \cup {{<<Len(LoadNodes), t>>} : t \in 0..MaxLoadId}}

InitLoad ==
    /\ InitReg
    /\ ts = TextSearcher_new
    /\ phase = "frozen"
    /\ inserted = <<>>
    /\ text \in ScanTexts
    /\ query = "save"
    /\ out = <<>>
    /\ scan = ScanStart
    /\ file \in LoadFiles

NextLoad ==
    \/ TSLoadError
    \/ TSLoadParsed
    \/ \E x \in file.blacks : TSLoadBlack(x)
    \/ \E x \in file.blues : TSLoadBlue(x)
    \/ TSLoadReturn
    \/ TSUseLoaded
    \/ ScanStep
    \/ ScanPanic
    \/ ScanReturn

SpecLoad == InitLoad /\ [][NextLoad]_vars

\* Automata with at most MaxArrows black arrows are saved and loaded.
InitSerde ==
    /\ InitBuilt
    /\ Cardinality(DOMAIN ts.blacks) <= MaxArrows
    /\ text = <<>>

NextSerde ==
    \/ TSSave
    \/ TSLoadNodes
    \/ \E x \in file.blacks : TSLoadBlack(x)
    \/ \E x \in file.blues : TSLoadBlue(x)
    \/ TSLoadReturn

SpecSerde == InitSerde /\ [][NextSerde]_vars

\* match_line on texts with both line separators; the keywords carry no
\* alias, which match_line never reads.
InitLine ==
    /\ InitBuilt
    /\ \A i \in 1..Len(inserted) : inserted[i][2] = None
    /\ text \in LineTexts

NextLine == TSMatchLine

SpecLine == InitLine /\ [][NextLine]_vars

(***************************************************************************)
(* Texts as &str: UTF-8 bytes.  The scans read them through text.chars().  *)
(* The characters are U+0061 (a, one byte), U+000A (one byte) and U+4E2D   *)
(* (three bytes).                                                          *)
(***************************************************************************)
Wide == "U+4E2D"
UniLetters == {"a", Wide}
UniTextLetters == UniLetters \cup {LF}

\* The bytes of one character in a String.
Utf8Char(c) ==
    IF c = "a" THEN <<97>>
    ELSE IF c = LF THEN <<10>>
    ELSE <<228, 184, 173>>

RECURSIVE Utf8(_)
Utf8(u) == IF u = <<>> THEN <<>> ELSE Utf8Char(Head(u)) \o Utf8(Tail(u))

\* The length of a UTF-8 sequence, from its first byte.
Utf8Width(b) == IF b < 128 THEN 1 ELSE IF b < 224 THEN 2 ELSE IF b < 240 THEN 3 ELSE 4

\* A reading of the text byte by byte (text.bytes()): every byte of a
\* multi-byte character counts as a character of its own.
chars_as_bytes(bytes) ==
    [i \in 1..Len(bytes) |->
        IF bytes[i] = 97 THEN "a" ELSE IF bytes[i] = 10 THEN LF ELSE "byte"]

\* str::chars(): the characters decoded from the bytes, from byte i on.
RECURSIVE chars_from(_, _)
chars_from(bytes, i) ==
    IF i > Len(bytes) THEN <<>>
    ELSE LET w == Utf8Width(bytes[i])
             c == CHOOSE c \in UniTextLetters : Utf8Char(c) = SubSeq(bytes, i, i + w - 1)
         IN <<c>> \o chars_from(bytes, i + w)

chars(bytes) == chars_from(bytes, 1)

UniKeywords == SeqsUpTo(UniLetters, MaxKeywordLen - 1)
UniLists ==
    {[i \in 1..Len(l) |-> <<l[i], Some(<<"x">>)>>] :
        l \in {l \in SeqsUpTo(UniKeywords, MaxKeywords) :
                 \A i \in 1..(Len(l) - 1) : KeywordCode(l[i]) < KeywordCode(l[i + 1])}}
UniTexts == SeqsUpTo(UniTextLetters, MaxTextLen)

TSMatchStr ==
    /\ phase = "frozen"
    /\ out' = match_(ts, chars(text))
    /\ query' = "match_"
    /\ UNCHANGED <<ts, phase, inserted, text, scan, file>>
    /\ UNCHANGED varsReg

TSMatchLineStr ==
    /\ phase = "frozen"
    /\ out' = match_line(ts, chars(text))
    /\ query' = "match_line"
    /\ UNCHANGED <<ts, phase, inserted, text, scan, file>>
    /\ UNCHANGED varsReg

TSSubstStr ==
    /\ phase = "frozen"
    /\ out' = subst(ts, chars(text))
    /\ query' = "subst"
    /\ UNCHANGED <<ts, phase, inserted, text, scan, file>>
    /\ UNCHANGED varsReg

InitUnicode ==
    /\ BuiltFrom(UniLists)
    /\ scan = ScanStart
    /\ \E u \in UniTexts : text = Utf8(u)

NextUnicode == TSMatchStr \/ TSMatchLineStr \/ TSSubstStr

SpecUnicode == InitUnicode /\ [][NextUnicode]_vars

(***************************************************************************)
(* Pairwise distinct keywords inserted in any order, then create_blues and *)
(* the three scans.                                                        *)
(***************************************************************************)
OrderKeywords == SeqsUpTo(Letters, MaxKeywordLen - 1)
\* Texts of MaxTextLen letters, and the same with a line feed in the middle.
OrderTexts ==
    LET full == {t \in ScanTexts : Len(t) = MaxTextLen}
        mid == (MaxTextLen + 1) \div 2
    IN full \cup {[t EXCEPT ![mid] = LF] : t \in full}

\* add_keyword with a keyword not inserted before; as in BuiltLists all
\* keywords of a list are given no alias or all the same alias.
TSAddDistinct(keyword, name) ==
    /\ \A i \in 1..Len(inserted) : inserted[i][1] # keyword /\ inserted[i][2] = name
    /\ TSAddKeyword(keyword, name)

InitOrder == InitReg /\ InitOne /\ text \in OrderTexts

NextOrder ==
    \/ \E keyword \in OrderKeywords, name \in Aliases : TSAddDistinct(keyword, name)
    \/ TSCreateBlues
    \/ TSMatch
    \/ TSMatchLine
    \/ TSSubst

SpecOrder == InitOrder /\ [][NextOrder]_vars

(***************************************************************************)
(* Properties of the registry (specification Spec).                        *)
(***************************************************************************)
Inside == {"locked", "scan", "add", "ret"}
Scans == {"match", "subst"}
Unknown(h) == h \notin DOMAIN created \/ h \in freed
InvalidHandle(r) == ~r.ok /\ r.val = "InvalidHandle"
ExpectedResult(c) ==
    IF c.op = "match"
    THEN match_by_option(build_text_searcher(created[c.tsid]), RegText, c.option)
    ELSE subst(build_text_searcher(created[c.tsid]), RegText)

\* C1, as stated: the registry mutex is not held while a scan runs (the guard
\* is released before match_/match_line/subst begins).
C1_Original == \A t \in Threads : pc[t] = "scan" => lock # t

\* C2, as stated: a match/subst call on h issued while another call on h is in
\* flight fails at once with the invalid-handle error and does not block or
\* wait: while h is checked out, the registry mutex is free for the lookup of
\* a second call (specification SpecHost).
C2_Original == \A t \in Threads : checked[t] # None => lock = 0

\* C3, as stated: while a scan on h1 is in progress, a call on another handle
\* h2 that is in the map can acquire the registry lock without waiting for
\* the scan to finish (specification SpecHost).
C3_Original ==
    \A t \in Threads :
        (/\ pc[t] = "scan"
         /\ \E h \in DOMAIN tsm.tss : h # call[t].tsid) => lock = 0

\* C4: once free(h) has returned for an issued handle h, h is neither in the
\* map nor checked out again, and every match/subst on h that reaches its
\* result afterwards returns the invalid-handle error.
C4_FreedStaysFreed ==
    \A h \in freed :
        /\ h \notin DOMAIN tsm.tss
        /\ \A t \in Threads : checked[t] # None => call[t].tsid # h
        /\ \A t \in Threads :
            (pc[t] = "ret" /\ call[t].op \in Scans /\ call[t].tsid = h)
                => InvalidHandle(result[t])

C4_Witness ==
    \E t \in Threads :
        /\ pc[t] = "ret" /\ call[t].op = "match" /\ call[t].tsid \in freed
        /\ InvalidHandle(result[t])

\* C5, as stated: every registry operation on a freed or never issued handle,
\* free included, returns the invalid-handle error.
C5_Original ==
    \A t \in Threads :
        (pc[t] = "ret" /\ call[t].op \in Scans \cup {"free"} /\ Unknown(call[t].tsid))
            => ~result[t].ok

\* C6: the handles init returns are 1, 2, 3, ... in the order of return, each
\* one greater than the one before and none twice, whatever happens between.
C6_HandlesIncrease ==
    /\ \A i \in 1..Len(issued) : issued[i] = i
    /\ \A t \in Threads :
        (pc[t] = "ret" /\ call[t].op = "init")
            => result[t].ok /\ result[t].val = Len(issued) + 1

C6_Witness ==
    \E t \in Threads :
        /\ pc[t] = "ret" /\ call[t].op = "init"
        /\ issued = <<1>> /\ 1 \in freed /\ result[t].val = 2

\* C7: the automaton held for a handle, in the map or checked out, is the one
\* built from the keyword list that handle was created with, and a match or
\* subst result is the scan of the text by that automaton, whatever calls on
\* other handles came before.
C7_Isolation ==
    /\ \A h \in DOMAIN tsm.tss :
        h \in DOMAIN created /\ tsm.tss[h] = build_text_searcher(created[h])
    /\ \A t \in Threads :
        checked[t] # None =>
            /\ call[t].tsid \in DOMAIN created
            /\ checked[t][1] = build_text_searcher(created[call[t].tsid])
    /\ \A t \in Threads :
        (pc[t] \in {"add", "ret"} /\ call[t].op \in Scans /\ result[t].ok)
            => result[t].val = ExpectedResult(call[t])

C7_Witness ==
    \E t \in Threads :
        /\ pc[t] = "ret" /\ call[t].op = "match" /\ result[t].ok
        /\ DOMAIN created = {1, 2} /\ created[1] # created[2]
        /\ freed # {}

\* C8: a match or subst on a handle absent from the map goes straight to its
\* return with the invalid-handle error and leaves count and the map as they
\* were.
C8_AbsentHandleNoEffect ==
    [][\A t \in Threads :
        (/\ pc[t] = "locked"
         /\ call[t].op \in Scans
         /\ call[t].tsid \notin DOMAIN tsm.tss
         /\ pc'[t] # pc[t])
            => /\ tsm' = tsm
               /\ pc'[t] = "ret"
               /\ InvalidHandle(result'[t])
               /\ checked'[t] = None]_vars

C8_Witness ==
    \E t \in Threads :
        /\ pc[t] = "ret" /\ call[t].op = "subst" /\ InvalidHandle(result[t])
        /\ call[t].tsid \notin DOMAIN created
        /\ tsm.count >= 1

\* C9: during the scan of a successful match/subst on h, h is out of the map
\* and held by the caller; when the call is about to return h is back in the
\* map with the automaton it was created with; every match/subst on an issued
\* and not freed handle succeeds with the scan of the text by that automaton.
C9_CheckoutReturn ==
    \A t \in Threads :
        /\ pc[t] \in {"scan", "add"} =>
            /\ call[t].tsid \notin DOMAIN tsm.tss
            /\ checked[t] = Some(build_text_searcher(created[call[t].tsid]))
        /\ (pc[t] = "ret" /\ call[t].op \in Scans /\ ~Unknown(call[t].tsid)) =>
            /\ result[t].ok
            /\ result[t].val = ExpectedResult(call[t])
            /\ checked[t] = None
            /\ call[t].tsid \in DOMAIN tsm.tss
            /\ tsm.tss[call[t].tsid] = build_text_searcher(created[call[t].tsid])

C9_Witness ==
    \E t \in Threads :
        /\ pc[t] = "add" /\ result[t].ok
        /\ checked[t] # None /\ call[t].tsid \notin DOMAIN tsm.tss

(***************************************************************************)
(* Properties of a single TextSearcher (specification SpecSingle).         *)
(***************************************************************************)
\* keyword occurs in txt at 0-based character offset i.
OccursAt(keyword, txt, i) ==
    /\ i + Len(keyword) <= Len(txt)
    /\ SubSeq(txt, i + 1, i + Len(keyword)) = keyword

NameOf(pair) == IF pair[2] # None THEN pair[2][1] ELSE pair[1]

\* C10: an automaton built from one non-empty keyword k reports, in match_,
\* (name of k, i, i + len(k)) for every offset i at which k occurs in the
\* text, overlapping occurrences included.
C10_SingleKeyword ==
    (query = "match_" /\ Len(inserted) = 1 /\ inserted[1][1] # <<>>) =>
        \A i \in 0..Len(text) :
            OccursAt(inserted[1][1], text, i) =>
                \E j \in 1..Len(out) :
                    out[j] = <<NameOf(inserted[1]), i, i + Len(inserted[1][1])>>

C10_Witness ==
    /\ query = "match_"
    /\ inserted = << <<<<"a", "a">>, None>> >>
    /\ text = <<"a", "a", "a">>
    /\ out = << <<<<"a", "a">>, 0, 2>>, <<<<"a", "a">>, 1, 3>> >>

(***************************************************************************)
(* Properties of the builder (specifications SpecSeven and SpecBuild).     *)
(***************************************************************************)
\* The character path of node n: the labels of the black arrows from the
\* root to n.
RECURSIVE PathOf(_, _)
PathOf(searcher, n) ==
    IF n = 1 THEN <<>>
    ELSE LET e == CHOOSE e \in DOMAIN searcher.blacks : searcher.blacks[e] = n
         IN Append(PathOf(searcher, e[1]), e[2])

\* The blue arrows as pairs <<path of the source, path of the target>>.
BlueLinks(searcher) ==
    {<<PathOf(searcher, n), PathOf(searcher, searcher.blues[n])>> : n \in DOMAIN searcher.blues}

SevenBuilt == phase = "frozen" /\ Len(inserted) = Len(SevenKeywords)

\* C11 as stated: for the keywords a, ab, bab, bc, bca, c, caa inserted in
\* that order, create_blues produces exactly the blue arrows ba->a, bab->ab,
\* bc->c, bca->ca, ca->a, caa->a and no other.
C11_Original ==
    SevenBuilt =>
        BlueLinks(ts) = { << <<"b", "a">>, <<"a">> >>,
                          << <<"b", "a", "b">>, <<"a", "b">> >>,
                          << <<"b", "c">>, <<"c">> >>,
                          << <<"b", "c", "a">>, <<"c", "a">> >>,
                          << <<"c", "a">>, <<"a">> >>,
                          << <<"c", "a", "a">>, <<"a">> >> }

\* C11: for the keywords a, ab, bab, bc, bca, c, caa inserted in that
\* order, create_blues produces exactly the blue arrows ab->b, ba->a,
\* bab->ab, bc->c, bca->ca, ca->a, caa->a, with the node ids of
\* test_create_blues, and no other; the nodes a, b and c have no blue arrow.
C11_SevenKeywordBlues ==
    SevenBuilt =>
        /\ BlueLinks(ts) = { << <<"a", "b">>, <<"b">> >>,
                             << <<"b", "a">>, <<"a">> >>,
                             << <<"b", "a", "b">>, <<"a", "b">> >>,
                             << <<"b", "c">>, <<"c">> >>,
                             << <<"b", "c", "a">>, <<"c", "a">> >>,
                             << <<"c", "a">>, <<"a">> >>,
                             << <<"c", "a", "a">>, <<"a">> >> }
        /\ ts.blues = (3 :> 4 @@ 5 :> 2 @@ 6 :> 3 @@ 7 :> 9 @@ 8 :> 10 @@ 10 :> 2 @@ 11 :> 2)
        /\ \A k \in {<<"a">>, <<"b">>, <<"c">>} :
               get_node_by_keyword(ts, k) \notin DOMAIN ts.blues

C11_Witness ==
    /\ SevenBuilt
    /\ 3 \in DOMAIN ts.blues
    /\ PathOf(ts, 3) = <<"a", "b">>
    /\ PathOf(ts, ts.blues[3]) = <<"b">>

NodeIds(searcher) == 1..Len(searcher.nodes)

\* w is the character path of some node.
InTrie(searcher, w) == \E m \in NodeIds(searcher) : PathOf(searcher, m) = w

\* The non-empty proper suffixes of w that are paths of the trie.
SuffixesInTrie(searcher, w) ==
    {s \in {SubSeq(w, i + 1, Len(w)) : i \in 1..(Len(w) - 1)} : InTrie(searcher, s)}

\* C12: after any add_keyword calls and one create_blues, a node with
\* character path w has a blue arrow iff some non-empty proper suffix of w is
\* a path of the trie, and the arrow then points to the node of the longest
\* such suffix; a node without such a suffix has no blue arrow.
C12_LongestProperSuffix ==
    phase = "frozen" =>
        \A n \in NodeIds(ts) :
            LET S == SuffixesInTrie(ts, PathOf(ts, n))
            IN /\ n \in DOMAIN ts.blues <=> S # {}
               /\ n \in DOMAIN ts.blues =>
                      /\ PathOf(ts, ts.blues[n]) \in S
                      /\ \A s \in S : Len(s) <= Len(PathOf(ts, ts.blues[n]))

C12_Witness ==
    /\ phase = "frozen"
    /\ \E n \in DOMAIN ts.blues, m \in NodeIds(ts) \ DOMAIN ts.blues :
           /\ Cardinality(SuffixesInTrie(ts, PathOf(ts, n))) > 1
           /\ Len(PathOf(ts, ts.blues[n])) > 1
           /\ m # 1

\* A step that is one add_keyword call, and its arguments.
AddStep == phase = "build" /\ phase' = "build" /\ Len(inserted') = Len(inserted) + 1
AddedKeyword == inserted'[Len(inserted')][1]
AddedName == NameOf(inserted'[Len(inserted')])

\* Before create_blues every node still holds its character path in letters.
HasNode(searcher, w) == \E m \in NodeIds(searcher) : searcher.nodes[m].letters = w

\* The length of the longest prefix of w that is a path of the trie.
LongestPrefix(searcher, w) ==
    CHOOSE p \in 0..Len(w) :
        /\ HasNode(searcher, SubSeq(w, 1, p))
        /\ \A q \in (p + 1)..Len(w) : ~HasNode(searcher, SubSeq(w, 1, q))

\* C19: add_keyword(k, alias) follows the existing black arrows from the
\* root and creates exactly one node and one black arrow per character of k
\* beyond the longest prefix of k already in the trie; the new nodes get the
\* ids node count + 1, + 2, ... in character order; the existing nodes and
\* arrows are unchanged; the node of k is terminal and named alias, or k
\* when no alias is given.
C19_AddKeyword ==
    [][AddStep =>
        LET k == AddedKeyword
            p == LongestPrefix(ts, k)
            n0 == Len(ts.nodes)
            last == CHOOSE m \in NodeIds(ts) : ts.nodes[m].letters = SubSeq(k, 1, p)
            t == IF p = Len(k) THEN last ELSE n0 + Len(k) - p
        IN /\ Len(ts'.nodes) = n0 + Len(k) - p
           /\ \A j \in 1..(Len(k) - p) :
                  /\ LET e == <<IF j = 1 THEN last ELSE n0 + j - 1, k[p + j]>>
                     IN e \notin DOMAIN ts.blacks /\ e \in DOMAIN ts'.blacks
                        /\ ts'.blacks[e] = n0 + j
                  /\ ts'.nodes[n0 + j].letters = SubSeq(k, 1, p + j)
                  /\ ts'.nodes[n0 + j].length = p + j
                  /\ n0 + j # t => ts'.nodes[n0 + j].name = <<>> /\ ~ts'.nodes[n0 + j].is_blue
           /\ Cardinality(DOMAIN ts'.blacks) = Cardinality(DOMAIN ts.blacks) + Len(k) - p
           /\ \A e \in DOMAIN ts.blacks : e \in DOMAIN ts'.blacks /\ ts'.blacks[e] = ts.blacks[e]
           /\ \A m \in 1..n0 : m # t => ts'.nodes[m] = ts.nodes[m]
           /\ get_node_by_keyword(ts', k) = t
           /\ ts'.nodes[t].is_blue
           /\ ts'.nodes[t].name = AddedName
           /\ ts'.nodes[t].length = Len(k)
           /\ ts'.blues = ts.blues
    ]_vars

C19_Witness ==
    /\ phase = "build"
    /\ Len(inserted) = 2
    /\ inserted[2][2] # None
    /\ LongestPrefix(add_keyword(TextSearcher_new, inserted[1][1], inserted[1][2]),
                     inserted[2][1]) \in 1..(Len(inserted[2][1]) - 1)
    /\ Len(ts.nodes) = 1 + Len(inserted[1][1]) + Len(inserted[2][1])
                          - LongestPrefix(add_keyword(TextSearcher_new, inserted[1][1],
                                                      inserted[1][2]), inserted[2][1])
    /\ ts.nodes[Len(ts.nodes)].name = inserted[2][2][1]

\* C20: inserting again a keyword that was inserted before adds no node and
\* no black arrow; only the name of the keyword's terminal node changes, to
\* the alias of the latest insertion, or to the keyword when that insertion
\* gives no alias.
C20_Reinsert ==
    [][(AddStep /\ \E i \in 1..Len(inserted) : inserted[i][1] = AddedKeyword) =>
        LET t == get_node_by_keyword(ts, AddedKeyword)
        IN /\ t \in NodeIds(ts)
           /\ ts.nodes[t].is_blue
           /\ ts' = [ts EXCEPT !.nodes[t].name = AddedName]
    ]_vars

C20_Witness ==
    /\ phase = "build"
    /\ Len(inserted) = 2
    /\ inserted[1][1] = inserted[2][1]
    /\ inserted[1][2] # None /\ inserted[2][2] = None
    /\ Len(inserted[1][1]) > 1
    /\ Len(ts.nodes) = 1 + Len(inserted[1][1])
    /\ ts.nodes[Len(ts.nodes)].name = inserted[1][1]

(***************************************************************************)
(* Properties of the scan (specification SpecScan).                        *)
(***************************************************************************)
\* A step that is one move_front call of match_.
ScanMoved == scan' # scan

\* C13: move_front(node, c) returns the black target and consumed = TRUE
\* when a black arrow (node, c) exists, whether or not the node has a blue
\* arrow; else the blue target and consumed = FALSE when the node has a blue
\* arrow; else the root, with consumed = TRUE at the root and FALSE elsewhere.
C13_MoveFrontPriority ==
    [][ScanMoved =>
        LET n == scan.node_id
            c == text[scan'.posy]
            black == <<n, c>> \in DOMAIN ts.blacks
            blue == n \in DOMAIN ts.blues
        IN /\ black => scan'.node_id = ts.blacks[<<n, c>>] /\ scan'.used
           /\ (~black /\ blue) => scan'.node_id = ts.blues[n] /\ ~scan'.used
           /\ (~black /\ ~blue /\ n = 1) => scan'.node_id = 1 /\ scan'.used
           /\ (~black /\ ~blue /\ n # 1) => scan'.node_id = 1 /\ ~scan'.used
    ]_vars

\* A black arrow was taken from a node that also has a blue arrow.
C13_Witness ==
    /\ scan.posy > 0
    /\ scan.used
    /\ \E e \in DOMAIN ts.blacks :
           /\ ts.blacks[e] = scan.node_id
           /\ e[2] = text[scan.posy]
           /\ e[1] \in DOMAIN ts.blues

\* C14: in match_, with p the 1-based position of the current character,
\* every move_front step that ends in a terminal node appends exactly one
\* event, (name, p - len, p) when the step consumed the character and
\* (name, p - 1 - len, p - 1) when it did not, and a step that ends in a
\* non-terminal node appends nothing; the events so collected are what match_
\* returns.
C14_MatchEvents ==
    /\ [][ScanMoved =>
            LET p == scan'.posy
                node == ts.nodes[scan'.node_id]
            IN scan'.names =
                   IF ~node.is_blue THEN scan.names
                   ELSE IF scan'.used
                        THEN Append(scan.names, <<node.name, p - node.length, p>>)
                        ELSE Append(scan.names, <<node.name, p - 1 - node.length, p - 1>>)
       ]_vars
    /\ [](query = "match_" => out = match_(ts, text))

\* One character gave two events, the second on a step that did not consume
\* it, and the two reported matches overlap.
C14_Witness ==
    /\ ~scan.used
    /\ ts.nodes[scan.node_id].is_blue
    /\ Len(scan.names) > 1
    /\ scan.names[Len(scan.names)][3] = scan.posy - 1
    /\ scan.names[Len(scan.names)][2] < scan.names[Len(scan.names) - 1][3]
    /\ scan.names[Len(scan.names) - 1][2] < scan.names[Len(scan.names)][2]

(***************************************************************************)
(* Properties of match_line (specification SpecLine).                      *)
(***************************************************************************)
\* The lines of txt: the pieces between separators, each CR and each LF
\* being one separator.
RECURSIVE SplitLines(_, _, _, _)
SplitLines(txt, i, line, lines) ==
    IF i > Len(txt) THEN Append(lines, line)
    ELSE IF txt[i] \in {CR, LF}
         THEN SplitLines(txt, i + 1, <<>>, Append(lines, line))
         ELSE SplitLines(txt, i + 1, Append(line, txt[i]), lines)

LinesOf(txt) == SplitLines(txt, 1, <<>>, <<>>)

\* The indices of the lines in which match_ reaches a terminal node.
MatchingLines(searcher, txt) ==
    {i \in 1..Len(LinesOf(txt)) : match_(searcher, LinesOf(txt)[i]) # <<>>}

\* C15: match_line reports one result for each line in which a terminal
\* node is reached and none for the other lines, empty lines included, so at
\* most one per line; the results are in line order; the result of a line
\* carries the offsets of the last terminal node reached in it (the last
\* event match_ gives for the line alone), the earlier ones being dropped.
C15_LastMatchPerLine ==
    query = "match_line" =>
        LET lines == LinesOf(text)
            M == MatchingLines(ts, text)
        IN /\ Len(out) = Cardinality(M)
           /\ Len(out) <= Len(lines)
           /\ \A j \in 1..Len(out) :
                  \E i \in M :
                      /\ Cardinality({h \in M : h <= i}) = j
                      /\ LET ev == match_(ts, lines[i])
                         IN out[j] = <<lines[i], ev[Len(ev)][2], ev[Len(ev)][3]>>

\* Two lines separated by CR; the first has two events and reports the
\* second, the empty second line reports nothing.
C15_Witness ==
    /\ query = "match_line"
    /\ Len(text) = MaxTextLen
    /\ text[Len(text)] = CR
    /\ Len(match_(ts, LinesOf(text)[1])) > 1
    /\ Len(out) = 1
    /\ out[1][2] > 0

(***************************************************************************)
(* Properties of subst (specification SpecSubst).                          *)
(***************************************************************************)
\* Events x and y share a character of the text.
Overlap(x, y) == x[2] < y[3] /\ y[2] < x[3]

\* The candidate x was committed (replaced in the result).
Replaced(x) == \E i \in 1..Len(scan.spans) : scan.spans[i] = x

\* The committed spans lie left to right without overlap.
SpansOrdered ==
    \A i \in 1..Len(scan.spans), j \in 1..Len(scan.spans) :
        i < j => scan.spans[i][3] <= scan.spans[j][2]

\* C16 as stated: the replaced spans are pairwise non-overlapping and appear
\* left to right, and of two overlapping visited matches the earlier
\* (leftmost) one is the one replaced.
C16_Original ==
    query = "subst" =>
        /\ SpansOrdered
        /\ LET ev == match_(ts, text)
           IN \A i \in 1..Len(ev), j \in 1..Len(ev) :
                  (i < j /\ ev[i][2] < ev[j][2] /\ Overlap(ev[i], ev[j])) =>
                      Replaced(ev[i]) /\ ~Replaced(ev[j])

\* C16: in subst the pending candidate is committed only if its start is
\* not before the cursor (the end of the last committed span), and a
\* candidate that starts before the cursor is dropped; hence the replaced
\* spans are pairwise non-overlapping and appear left to right, every
\* replaced span is a visited match, and a visited match that overlaps a
\* replaced span visited before it is not replaced.
C16_FirstCommittedWins ==
    /\ [][scan'.spans # scan.spans =>
            /\ scan'.spans = Append(scan.spans, scan.last_found)
            /\ scan.last_found[2] >= scan.result[2]
            /\ scan'.result[2] = scan.last_found[3]
       ]_vars
    /\ [][(scan' # scan /\ scan.last_found[2] < scan.result[2]) =>
            scan'.spans = scan.spans /\ scan'.result = scan.result
       ]_vars
    /\ [](phase = "frozen" => SpansOrdered)
    /\ [](query = "subst" =>
            LET ev == match_(ts, text)
            IN /\ \A k \in 1..Len(scan.spans) :
                      scan.spans[k] = <<<<>>, 0, 0>> \/ \E i \in 1..Len(ev) : ev[i] = scan.spans[k]
               /\ \A i \in 1..Len(ev), j \in 1..Len(ev) :
                      (i < j /\ Replaced(ev[i]) /\ Overlap(ev[i], ev[j])) => ~Replaced(ev[j]))

\* test_subst1: in abccab, ab is replaced, bc (1..3) is dropped because it
\* starts before the cursor, and c (2..3), which overlaps bc, is replaced.
C16_Witness ==
    /\ query = "subst"
    /\ inserted = SubstTestKeywords
    /\ out = <<"x", "a", "b", "y", "x", "c", "y", "x", "c", "y", "x", "a", "b", "y">>
    /\ Replaced(<<<<"x", "a", "b", "y">>, 0, 2>>)
    /\ ~Replaced(<<<<"x", "b", "c", "y">>, 1, 3>>)
    /\ Replaced(<<<<"x", "c", "y">>, 2, 3>>)
    /\ \E i \in 1..Len(match_(ts, text)) : match_(ts, text)[i] = <<<<"x", "b", "c", "y">>, 1, 3>>

\* text[0..s1] + name1 + text[e1..s2] + ... + namek + text[ek..] for the
\* spans from index i on, the text being copied up to 0-based offset cursor.
RECURSIVE Splice(_, _, _, _)
Splice(txt, spans, i, cursor) ==
    IF i > Len(spans) THEN SubSeq(txt, cursor + 1, Len(txt))
    ELSE SubSeq(txt, cursor + 1, spans[i][2]) \o spans[i][1]
         \o Splice(txt, spans, i + 1, spans[i][3])

\* C17: with the committed spans (s1, e1, name1) ... (sk, ek, namek) in
\* order, the result of subst is text[0..s1] + name1 + text[e1..s2] + ... +
\* namek + text[ek..]: every character outside a committed span is copied
\* once, in order; when no terminal node is reached the result is the text.
C17_UnmatchedTextKept ==
    query = "subst" =>
        /\ out = Splice(text, scan.spans, 1, 0)
        /\ out = subst(ts, text)
        /\ match_(ts, text) = <<>> => out = text

\* A span committed with text before it and after it, and that text kept
\* around the alias.
C17_Witness ==
    /\ query = "subst"
    /\ Len(text) = MaxTextLen
    /\ \E i \in 1..Len(scan.spans) :
           /\ scan.spans[i] = <<<<"x">>, 1, Len(text) - 1>>
           /\ out = <<text[1], "x", text[Len(text)]>>

(***************************************************************************)
(* Properties of save and load (specification SpecSerde).                  *)
(***************************************************************************)
\* C18: for an automaton built by add_keyword calls and create_blues, the
\* automaton loaded from its saved record, whatever the order of the black
\* and blue lists in the record, has the same nodes, black map and blue map
\* and gives the same match_, match_line and subst results on every text.
C18_RoundTrip ==
    query = "load" =>
        /\ out.nodes = ts.nodes
        /\ out.blacks = ts.blacks
        /\ out.blues = ts.blues
        /\ \A t \in Texts :
               /\ match_(out, t) = match_(ts, t)
               /\ match_line(out, t) = match_line(ts, t)
               /\ subst(out, t) = subst(ts, t)

\* An automaton with several arrows of both colours and an alias was loaded.
C18_Witness ==
    /\ query = "load"
    /\ Cardinality(DOMAIN out.blacks) = MaxArrows
    /\ Cardinality(DOMAIN out.blues) > 1
    /\ \E n \in 1..Len(out.nodes) : out.nodes[n].name = <<"x">>
    /\ match_(out, <<"a", "b">>) # <<>>

(***************************************************************************)
(* Properties of the public methods in any order (specification            *)
(* SpecDirect).                                                            *)
(***************************************************************************)
\* C21: once create_blues has completed, the node array, the black arrows
\* and the blue arrows of the automaton never change again, whatever public
\* method is called on it afterwards.
C21_FrozenNeverChanges ==
    [][phase = "frozen" =>
        /\ ts'.nodes = ts.nodes
        /\ ts'.blacks = ts.blacks
        /\ ts'.blues = ts.blues
    ]_vars

(***************************************************************************)
(* Properties of load on unchecked texts (specification SpecLoad).         *)
(***************************************************************************)
\* Following the blue arrows from n for k steps; 0 when the walk leaves the
\* map.
RECURSIVE BlueWalk(_, _, _)
BlueWalk(searcher, n, k) ==
    IF k = 0 THEN n
    ELSE IF n \in DOMAIN searcher.blues THEN BlueWalk(searcher, searcher.blues[n], k - 1)
         ELSE 0

\* Every arrow joins nodes of the array and no blue walk comes back to its
\* start.
Consistent(searcher) ==
    /\ Len(searcher.nodes) > 0
    /\ \A e \in DOMAIN searcher.blacks :
           e[1] \in NodeIds(searcher) /\ searcher.blacks[e] \in NodeIds(searcher)
    /\ \A n \in DOMAIN searcher.blues :
           /\ n \in NodeIds(searcher) /\ searcher.blues[n] \in NodeIds(searcher)
           /\ \A k \in 1..Len(searcher.nodes) : BlueWalk(searcher, n, k) # n

\* C22: load returns an error for every text that is malformed or whose
\* record is structurally inconsistent (an arrow to node 0 or beyond the
\* node count, a cycle of blue arrows), so load never returns an automaton on
\* which a later scan indexes outside the node array or steps forever.
C22_LoadRejectsInconsistent ==
    /\ query = "load" => Consistent(out)
    /\ query # "panic"
    /\ (phase = "frozen" /\ query = "none") => Consistent(ts)

(***************************************************************************)
(* Properties of the poisoned registry mutex (specification SpecPoison).   *)
(***************************************************************************)
\* C23: when the registry mutex is poisoned, every registry call (init,
\* match, subst, free) returns a lock-failure error, never a default or empty
\* result, and neither the handle map nor the counter is read or changed.
C23_PoisonedLockFails ==
    /\ [][lock = Poisoned =>
            /\ tsm' = tsm
            /\ lock' = Poisoned
            /\ \A t \in Threads :
                /\ pc'[t] \in {"idle", "lock", "failed"}
                /\ (pc[t] = "lock" /\ pc'[t] # "lock")
                      => pc'[t] = "failed" /\ result'[t] = Err("LockFailure")
                /\ pc[t] = "failed" => result[t] = Err("LockFailure")
        ]_vars
    /\ [](\A t \in Threads : pc[t] = "failed" => lock = Poisoned)

C23_Witness ==
    /\ lock = Poisoned
    /\ \E t1, t2 \in Threads :
        /\ pc[t1] = "failed" /\ call[t1].op = "free" /\ call[t1].tsid \in DOMAIN tsm.tss
        /\ result[t1] = Err("LockFailure")
        /\ pc[t2] = "failed" /\ call[t2].op \in {"match", "subst"}
        /\ result[t2] = Err("LockFailure")

(***************************************************************************)
(* The builder cannot fail (specification SpecBuild).  The only places     *)
(* where add_keyword and create_blues could fail are their indexings       *)
(* self.nodes[node_id - 1].                                                *)
(***************************************************************************)
\* C24: add_keyword and create_blues never fail, whatever the keyword list
\* (empty list, empty keyword, duplicates, prefixes and extensions of each
\* other): every node id they index is a node of the array; consequently
\* new_text_searcher on any list builds the automaton, stores it and returns
\* its handle.
C24_BuilderNeverFails ==
    /\ Consistent(ts)
    /\ \A i \in 1..Len(inserted) :
           LET node_id == get_node_by_keyword_walk(ts, inserted[i][1], 1, 1)
           IN node_id \in NodeIds(ts) /\ ts.nodes[node_id].is_blue
    /\ phase = "frozen" =>
           LET r == new_text_searcher(TextSearcherManager_new, inserted)
           IN /\ r.tsid = 1
              /\ DOMAIN r.tsm.tss = {r.tsid}
              /\ r.tsm.tss[r.tsid] = ts

C24_Witness ==
    /\ phase = "frozen"
    /\ Len(inserted) = MaxKeywords
    /\ inserted[1][1] = <<>>
    /\ inserted[Len(inserted)][1] = <<>>
    /\ ts.nodes[1].is_blue

C24_WitnessEmptyList ==
    /\ phase = "frozen"
    /\ inserted = <<>>
    /\ Len(ts.nodes) = 1

(***************************************************************************)
(* Completeness of match_ (specification SpecScan).                        *)
(***************************************************************************)
\* C25: for any keyword set and any text, match_ reports every occurrence of
\* every inserted non-empty keyword: whenever keyword k occurs in the text at
\* character offset i, the result contains (name of k, i, i + len(k)), also
\* when k occurs inside or at the end of an occurrence of a longer keyword.
C25_EveryOccurrence ==
    query = "match_" =>
        \A p \in 1..Len(inserted) : \A i \in 0..Len(text) :
            (inserted[p][1] # <<>> /\ OccursAt(inserted[p][1], text, i)) =>
                \E j \in 1..Len(out) :
                    out[j] = <<NameOf(inserted[p]), i, i + Len(inserted[p][1])>>

(***************************************************************************)
(* Character positions (specification SpecUnicode).                        *)
(***************************************************************************)
\* The characters whose encoding the text is.
CharsOf(bytes) == CHOOSE u \in UniTexts : Utf8(u) = bytes

\* The character offsets at which the only keyword occurs.
OffsetsOf(keyword, u) == {i \in 0..Len(u) : OccursAt(keyword, u, i)}

\* C26: the positions of match_, match_line and subst count characters and
\* never bytes: for a text with multi-byte characters, an event (name, s, e)
\* of match_ has s equal to the number of characters before the occurrence
\* and e - s equal to the number of characters of the keyword; an event of
\* match_line is the same within its line; subst replaces the characters from
\* s to e and copies every other character whole.
C26_CharacterPositions ==
    LET u == CharsOf(text)
        single == Len(inserted) = 1 /\ inserted[1][1] # <<>>
    IN /\ query = "match_" =>
            /\ \A j \in 1..Len(out) :
                   /\ 0 <= out[j][2] /\ out[j][2] <= out[j][3] /\ out[j][3] <= Len(u)
                   /\ \E p \in 1..Len(inserted) :
                         /\ out[j][3] - out[j][2] = Len(inserted[p][1])
                         /\ OccursAt(inserted[p][1], u, out[j][2])
            /\ single =>
                   \A i \in OffsetsOf(inserted[1][1], u) :
                       \E j \in 1..Len(out) :
                           out[j] = <<NameOf(inserted[1]), i, i + Len(inserted[1][1])>>
       /\ query = "match_line" =>
            /\ \A j \in 1..Len(out) :
                   /\ \E l \in 1..Len(LinesOf(u)) : LinesOf(u)[l] = out[j][1]
                   /\ 0 <= out[j][2] /\ out[j][2] <= out[j][3] /\ out[j][3] <= Len(out[j][1])
                   /\ \E p \in 1..Len(inserted) :
                         /\ out[j][3] - out[j][2] = Len(inserted[p][1])
                         /\ OccursAt(inserted[p][1], out[j][1], out[j][2])
            /\ (single /\ OffsetsOf(inserted[1][1], u) # {}) => out # <<>>
       /\ (query = "subst" /\ single) =>
            /\ OffsetsOf(inserted[1][1], u) = {} => out = u
            /\ \A i \in OffsetsOf(inserted[1][1], u) :
                   OffsetsOf(inserted[1][1], u) = {i} =>
                       out = SubSeq(u, 1, i) \o NameOf(inserted[1])
                                \o SubSeq(u, i + Len(inserted[1][1]) + 1, Len(u))

C26_Witness ==
    /\ query = "match_"
    /\ inserted = << <<<<"a">>, Some(<<"x">>)>> >>
    /\ text = <<228, 184, 173, 97>>
    /\ out = << <<<<"x">>, 1, 2>> >>

C26_WitnessSubst ==
    /\ query = "subst"
    /\ inserted = << <<<<Wide, "a">>, Some(<<"x">>)>> >>
    /\ text = <<228, 184, 173, 228, 184, 173, 97>>
    /\ out = <<Wide, "x">>

(***************************************************************************)
(* The nodes after create_blues (specification SpecBuild).                 *)
(***************************************************************************)
\* C27: create_blues leaves every node without letters while its length is
\* still the number of characters of its path (the letters it had before,
\* which lead from the root to it), so the record exported
\* from the automaton carries, per node, the length, the name and the
\* terminal flag and no keyword characters.
C27_LettersDropped ==
    [][(phase = "build" /\ phase' = "frozen") =>
        LET record == TextSearcherForSerde_from(ts')
        IN /\ Len(record.nodes) = Len(ts.nodes)
           /\ \A n \in NodeIds(ts) :
                 /\ get_node_by_keyword(ts, ts.nodes[n].letters) = n
                 /\ ts'.nodes[n].letters = <<>>
                 /\ ts'.nodes[n].length = Len(ts.nodes[n].letters)
                 /\ record.nodes[n] =
                        [letters |-> <<>>, length |-> Len(ts.nodes[n].letters),
                         name |-> ts.nodes[n].name, is_blue |-> ts.nodes[n].is_blue]
    ]_vars

C27_Witness ==
    /\ phase = "frozen"
    /\ inserted = << <<<<"a">>, Some(<<"x">>)>>, <<<<"b", "a", "b">>, None>> >>
    /\ ts.nodes[Len(ts.nodes)] =
          [letters |-> <<>>, length |-> Len(<<"b", "a", "b">>), name |-> <<"b", "a", "b">>, is_blue |-> TRUE]

(***************************************************************************)
(* Termination of the scan (specification SpecScanFair).                   *)
(***************************************************************************)
\* The number of move_front calls the inner loop makes from node n until
\* the character is consumed; more than fuel when fuel calls do not consume
\* it.
RECURSIVE MoveFrontSteps(_, _, _, _)
MoveFrontSteps(searcher, n, letter, fuel) ==
    IF fuel = 0 THEN 1
    ELSE LET mf == move_front(searcher, n, letter)
         IN IF mf[2] THEN 1 ELSE 1 + MoveFrontSteps(searcher, mf[1], letter, fuel - 1)

\* C28: every scan terminates: a move_front step that does not consume the
\* character moves to a node of strictly smaller length (a blue target or
\* the root) and the root always consumes, so from the current node n at
\* most length(n) + 1 steps are made before a character is consumed, and
\* match_ returns.
C28_ScanTerminates ==
    /\ [][(ScanMoved /\ ~scan'.used) =>
            ts.nodes[scan'.node_id].length < ts.nodes[scan.node_id].length]_vars
    /\ [](\A letter \in Letters :
            MoveFrontSteps(ts, scan.node_id, letter, Len(ts.nodes) + 1)
                <= ts.nodes[scan.node_id].length + 1)
    /\ <>(query = "match_")

\* match_ of aab with the keyword aa: the last character leaves node aa by
\* its blue arrow to a, goes on to the root and is consumed there.
C28_Witness ==
    /\ query = "match_"
    /\ inserted = << <<<<"a", "a">>, None>> >>
    /\ text = <<"a", "a", "b">>
    /\ out = << <<<<"a", "a">>, 0, 2>> >>
    /\ MoveFrontSteps(ts, Len(ts.nodes), "b", Len(ts.nodes) + 1) = Len(text)

(***************************************************************************)
(* Soundness of the events of match_ (specification SpecScan).             *)
(***************************************************************************)
\* C29: every event (name, s, e) of match_ has 0 <= s <= e <= len(text), so
\* neither posy - length nor posy - length - 1 goes below zero, and the
\* characters text[s..e] are exactly the inserted keyword that carries the
\* name.
C29_EventsSound ==
    /\ \A j \in 1..Len(scan.names) :
           LET name == scan.names[j][1]
               s == scan.names[j][2]
               e == scan.names[j][3]
           IN /\ 0 <= s /\ s <= e /\ e <= scan.posy /\ scan.posy <= Len(text)
              /\ \E p \in 1..Len(inserted) :
                    /\ NameOf(inserted[p]) = name
                    /\ inserted[p][1] = SubSeq(text, s + 1, e)
    /\ query = "match_" => out = scan.names

\* The event (a, 1, 2) comes from the step that leaves aa by its blue arrow
\* without consuming b: posy - length - 1 = 3 - 1 - 1.
C29_Witness ==
    /\ query = "match_"
    /\ inserted = << <<<<"a">>, None>>, <<<<"a", "a">>, None>> >>
    /\ text = <<"a", "a", "b">>
    /\ out = << <<<<"a">>, 0, 1>>, <<<<"a", "a">>, 0, 2>>, <<<<"a">>, 1, 2>> >>

(***************************************************************************)
(* The node of the scan (specifications SpecScan and SpecSubst).           *)
(***************************************************************************)
\* The start offsets of the suffixes of w that are paths of the trie; the
\* empty suffix, at Len(w), is the path of the root.
SuffixStarts(searcher, w) ==
    {i \in 0..Len(w) : get_node_by_keyword(searcher, SubSeq(w, i + 1, Len(w))) # 0}

LongestSuffixStart(searcher, w) ==
    CHOOSE i \in SuffixStarts(searcher, w) : \A k \in SuffixStarts(searcher, w) : i <= k

\* C30: after each step that consumes the character at position p, the
\* current node is the node of the longest suffix of the text consumed so far
\* that is a path of the trie; it is the root iff no non-empty suffix is one.
C30_LongestSuffixNode ==
    scan.used =>
        LET w == SubSeq(text, 1, scan.posy)
            i == LongestSuffixStart(ts, w)
        IN /\ scan.node_id = get_node_by_keyword(ts, SubSeq(w, i + 1, Len(w)))
           /\ scan.node_id = 1 <=> i = Len(w)

\* After bab with the keywords ab and b the scan stands on ab, not on b.
C30_Witness ==
    /\ inserted = << <<<<"b">>, None>>, <<<<"a", "b">>, None>> >>
    /\ text = <<"b", "a", "b">>
    /\ scan.used
    /\ scan.posy = Len(text)
    /\ scan.node_id = get_node_by_keyword(ts, <<"a", "b">>)
    /\ query = "none"

(***************************************************************************)
(* The order of the events of match_ (specification SpecScan).             *)
(***************************************************************************)
\* C31: in the list match_ returns, the end positions are non-decreasing
\* and the start positions are non-decreasing: a later event never starts or
\* ends before an earlier one.
C31_EventsOrdered ==
    /\ \A j \in 1..(Len(scan.names) - 1) :
           /\ scan.names[j][2] <= scan.names[j + 1][2]
           /\ scan.names[j][3] <= scan.names[j + 1][3]
    /\ query = "match_" =>
           \A i, j \in 1..Len(out) :
               i < j => out[i][2] <= out[j][2] /\ out[i][3] <= out[j][3]

\* aaa with the keywords a, aa: the event of the blue step, (a, 1, 2), comes
\* after (aa, 0, 2) with the same end and a later start, and (aa, 1, 3)
\* after it with the same start and a later end.
C31_Witness ==
    /\ query = "match_"
    /\ inserted = << <<<<"a">>, None>>, <<<<"a", "a">>, None>> >>
    /\ text = <<"a", "a", "a">>
    /\ Len(out) = Len(text) + 1
    /\ out[Len(text)] = <<<<"a">>, 1, 2>>
    /\ out[Len(out)] = <<<<"a", "a">>, 1, 3>>

(***************************************************************************)
(* subst as a fold of the events of match_ (specification SpecSubst).      *)
(***************************************************************************)
\* The candidate is committed when it starts at or after the cursor and
\* dropped otherwise; acc is <<result so far, cursor>>.
FoldCommit(txt, acc, pending) ==
    IF pending = None THEN acc
    ELSE IF pending[1][2] >= acc[2]
         THEN <<acc[1] \o SubSeq(txt, acc[2] + 1, pending[1][2]) \o pending[1][1],
                pending[1][3]>>
         ELSE acc

\* The fold over the events from index i on, with one pending candidate
\* (None at the start).
RECURSIVE FoldEvents(_, _, _, _, _)
FoldEvents(txt, events, i, pending, acc) ==
    IF i > Len(events)
    THEN LET last == FoldCommit(txt, acc, pending)
         IN last[1] \o SubSeq(txt, last[2] + 1, Len(txt))
    ELSE IF pending # None /\ events[i][2] = pending[1][2]
         THEN FoldEvents(txt, events, i + 1, Some(events[i]), acc)
         ELSE FoldEvents(txt, events, i + 1, Some(events[i]), FoldCommit(txt, acc, pending))

\* C32: subst and match_ visit the same matches: subst(text) is the fold of
\* the event list of match_(text) that keeps one pending candidate, replaces
\* it by an event with the same start, on an event with another start
\* commits it when its start is at or after the cursor (copy the text from
\* the cursor to its start, append its name, move the cursor to its end) and
\* drops it otherwise, flushes the last candidate by the same rule and copies
\* the rest of the text.
C32_SubstFoldsMatch ==
    query = "subst" => out = FoldEvents(text, match_(ts, text), 1, None, <<<<>>, 0>>)

\* test_subst1: abccab with the seven keywords; ab is committed, bc is
\* dropped, the c after it is committed.
C32_Witness ==
    /\ query = "subst"
    /\ inserted = SubstTestKeywords
    /\ text = SubstTestText
    /\ Len(scan.spans) < Len(match_(ts, text))
    /\ out = <<"x", "a", "b", "y", "x", "c", "y", "x", "c", "y", "x", "a", "b", "y">>

(***************************************************************************)
(* match_line as match_ line by line (specification SpecLine).             *)
(***************************************************************************)
\* What one line contributes: nothing when match_ finds nothing in it, else
\* the line itself with the offsets of the last event of match_.
LineResult(searcher, line) ==
    LET ev == match_(searcher, line)
    IN IF ev = <<>> THEN <<>>
       ELSE << <<line, ev[Len(ev)][2], ev[Len(ev)][3]>> >>

RECURSIVE ConcatLineResults(_, _, _)
ConcatLineResults(searcher, lines, i) ==
    IF i > Len(lines) THEN <<>>
    ELSE LineResult(searcher, lines[i]) \o ConcatLineResults(searcher, lines, i + 1)

\* C33: match_line is match_ applied line by line with a full reset: with
\* the text split at every CR and LF into L1..Ln, match_line(text) is the
\* concatenation, in order, of nothing for a line in which match_ finds
\* nothing and of the one triple (Li, s, e) otherwise, s and e being the
\* offsets within Li of the last event of match_(Li) and the first component
\* the whole line; a keyword across a line break is never matched.
C33_LineByLine ==
    query = "match_line" =>
        /\ out = ConcatLineResults(ts, LinesOf(text), 1)
        /\ \A j \in 1..Len(out) :
              /\ \A k \in 1..Len(out[j][1]) : out[j][1][k] \notin {CR, LF}
              /\ 0 <= out[j][2] /\ out[j][3] <= Len(out[j][1])

\* a, line feed, b with the keywords b and ab: the second line reports b at
\* 0..1 under the line text; ab, which would span the break, is not found.
C33_Witness ==
    /\ query = "match_line"
    /\ inserted = << <<<<"b">>, None>>, <<<<"a", "b">>, None>> >>
    /\ text = <<"a", LF, "b">>
    /\ out = << <<<<"b">>, 0, 1>> >>

(***************************************************************************)
(* The handle map between calls (specification Spec).                      *)
(***************************************************************************)
\* C34: whenever the registry lock is not held, the keys of the map are
\* exactly the handles init has returned and free has not yet removed, and
\* every key k has 1 <= k <= count; no handle is missing because a match or
\* subst call took its automaton out earlier.
C34_MapBetweenCalls ==
    lock = 0 =>
        /\ DOMAIN tsm.tss = {issued[i] : i \in 1..Len(issued)} \ freed
        /\ \A k \in DOMAIN tsm.tss : 1 <= k /\ k <= tsm.count
        /\ \A t \in Threads : checked[t] = None /\ pc[t] \in {"idle", "lock"}

\* Two handles issued, the first freed, the lock free, and a scan of the
\* second handle about to start.
C34_Witness ==
    /\ lock = 0
    /\ issued = <<1, 2>>
    /\ freed = {1}
    /\ DOMAIN tsm.tss = {2}
    /\ tsm.count = 2
    /\ \E t \in Threads : pc[t] = "lock" /\ call[t].op \in Scans /\ call[t].tsid = 2

(***************************************************************************)
(* Every call returns (specification SpecFair).                            *)
(***************************************************************************)
\* C35: with any number of threads calling init, match, subst and free, under
\* fair scheduling every call eventually returns, with a result or an error;
\* a thread holds the registry lock exactly while it is between TSM.lock()
\* and its return, so the lock is taken once per call and released on every
\* return; and no thread is ever blocked: whenever a thread stands at
\* TSM.lock() the mutex is free.
C35_EveryCallReturns ==
    /\ \A t \in Threads : (pc[t] # "idle") ~> (pc[t] = "idle")
    /\ [](\A t \in Threads :
            /\ pc[t] \in {"idle", "lock"} => lock # t
            /\ pc[t] \in Inside => lock = t
            /\ pc[t] = "ret" => result[t] # NoResult)
    /\ [](\A t \in Threads : pc[t] = "lock" => lock = 0)

\* After an init and a free have returned, a thread is about to return the
\* invalid-handle error of a scan and still holds the lock.
C35_Witness ==
    /\ \E t \in Threads :
        /\ lock = t /\ pc[t] = "ret" /\ call[t].op \in Scans
        /\ InvalidHandle(result[t])
    /\ Len(issued) > 0
    /\ freed # {}

(***************************************************************************)
(* subst without aliases (specification SpecSubst).                        *)
(***************************************************************************)
AliasFree == \A i \in 1..Len(inserted) : inserted[i][2] = None

\* C36: when every keyword was inserted without alias, each node is named by
\* its own keyword, every replacement writes the matched text itself, and
\* subst returns its input unchanged: during the scan the result built so far
\* is the text up to the cursor, and the returned string is the text.
C36_SubstIdentityWithoutAlias ==
    AliasFree =>
        /\ scan.result[2] \in 0..Len(text)
        /\ scan.result[1] = SubSeq(text, 1, scan.result[2])
        /\ query = "subst" => out = text

\* subst has returned on an alias-free automaton after replacing a keyword
\* that starts after the first character by itself.
C36_Witness ==
    /\ AliasFree
    /\ query = "subst"
    /\ out = text
    /\ \E i \in 1..Len(scan.spans) :
          /\ scan.spans[i][2] > 0
          /\ scan.spans[i][3] > scan.spans[i][2]

(***************************************************************************)
(* Insertion order (specification SpecOrder).                              *)
(***************************************************************************)
\* The pairs of a set in increasing order of their keywords.
RECURSIVE SortByCode(_)
SortByCode(S) ==
    IF S = {} THEN <<>>
    ELSE LET m == CHOOSE x \in S : \A y \in S : KeywordCode(x[1]) <= KeywordCode(y[1])
         IN <<m>> \o SortByCode(S \ {m})

\* The automaton built from the inserted pairs in increasing order.
CanonicalBuild == build_text_searcher(SortByCode({inserted[i] : i \in 1..Len(inserted)}))

\* C37: the order of the add_keyword calls does not matter: for pairwise
\* distinct keywords with their aliases, inserted in any order and followed by
\* create_blues, match_, match_line and subst return on every text what they
\* return on the automaton built from the same pairs in increasing order, and
\* so the same for any two orders.
C37_OrderIndependent ==
    /\ query = "match_" => out = match_(CanonicalBuild, text)
    /\ query = "match_line" => out = match_line(CanonicalBuild, text)
    /\ query = "subst" => out = subst(CanonicalBuild, text)

\* ab was inserted before b, so the node ids differ from those of the
\* increasing order, and match_ has reported both keywords.
C37_Witness ==
    /\ Len(inserted) = 2
    /\ inserted[1][1] = <<"a", "b">>
    /\ inserted[2][1] = <<"b">>
    /\ ts # CanonicalBuild
    /\ query = "match_"
    /\ Len(out) >= 2

(***************************************************************************)
(* The trie of black arrows (specification SpecTrie).                      *)
(***************************************************************************)
\* The black arrows that point to node n.
ArrowsTo(n) == {k \in DOMAIN ts.blacks : ts.blacks[k] = n}

\* C38: after any sequence of add_keyword calls the black arrows form a trie:
\* there is one node more than there are black arrows; the root has no
\* incoming arrow and every other node exactly one, from a node with a
\* smaller id, a length one less and the letters of its prefix; a node is
\* terminal exactly when the string that leads to it is an inserted keyword;
\* and a node that is not terminal has the empty name.
C38_TrieWellFormed ==
    /\ Len(ts.nodes) = 1 + Cardinality(DOMAIN ts.blacks)
    /\ ArrowsTo(1) = {}
    /\ ts.nodes[1].letters = <<>> /\ ts.nodes[1].length = 0
    /\ \A k \in DOMAIN ts.blacks : k[1] \in 1..Len(ts.nodes) /\ ts.blacks[k] \in 2..Len(ts.nodes)
    /\ \A n \in 2..Len(ts.nodes) :
          /\ Cardinality(ArrowsTo(n)) = 1
          /\ \A k \in ArrowsTo(n) :
                /\ k[1] < n
                /\ ts.nodes[n].length = ts.nodes[k[1]].length + 1
                /\ ts.nodes[n].letters = Append(ts.nodes[k[1]].letters, k[2])
    /\ \A n \in 1..Len(ts.nodes) :
          /\ ts.nodes[n].is_blue <=> \E i \in 1..Len(inserted) : inserted[i][1] = ts.nodes[n].letters
          /\ ~ts.nodes[n].is_blue => ts.nodes[n].name = <<>>

\* ab and then b were inserted: four nodes and three arrows, the node of a
\* is not terminal and has no name, the nodes of ab and b are terminal.
C38_Witness ==
    /\ Len(inserted) = 2
    /\ inserted[1][1] = <<"a", "b">>
    /\ inserted[2][1] = <<"b">>
    /\ Len(ts.nodes) = 4
    /\ Cardinality(DOMAIN ts.blacks) = 3
    /\ ~ts.nodes[2].is_blue /\ ts.nodes[2].name = <<>>
    /\ ts.nodes[3].is_blue /\ ts.nodes[4].is_blue

====
